---- MODULE Spec2Model ----
(***************************************************************************)
(* GitHub Projects V2 client (github_projects_mcp/github_client.py) and    *)
(* its tool shell (github_projects_mcp/server.py) as a state machine.      *)
(*                                                                         *)
(* One engine operation runs at a time.  Each await of execute_query is a  *)
(* position (pc); the action that leaves the position draws the transport  *)
(* outcome from a bounded set and runs the handler up to its next await or *)
(* its exit.  Python values are tagged records, so that truthiness, dict   *)
(* lookups, str() and float() are computed as the interpreter computes     *)
(* them.                                                                   *)
(***************************************************************************)
EXTENDS Integers, Sequences, FiniteSets, TLC

VARIABLES
    pc,        \* the engine: "idle", the query awaited by the running operation, or "done"
    op,        \* the running operation: its name and its arguments
    locals,    \* local variables of the running operation that outlive an await
    calls,     \* execute_query calls issued by the running operation, in order
    replies,   \* what the transport produced for each of those calls, in order
    released,  \* for each call that has ended, whether its transport session was released
    leaked,    \* sessions that operations already returned have left open
    ret,       \* how the operation ended: returned value, GitHubClientError or other exception
    tool,      \* the shell tool that is running, with its arguments; none for a direct call
    out,       \* how the tool ended, once it has: its text response, or the exception it raised
    resolved,  \* history: (owner, number) pairs whose id an earlier invocation obtained
    remote,    \* the items the project holds at GitHub, when the model follows them
    other      \* a second operation of the same client, suspended at an await

vars == <<pc, op, locals, calls, replies, released, leaked, ret, tool, out, resolved,
          remote, other>>

----------------------------------------------------------------------------
(* Bounds of the model *)

\* most field-value records in one items response, over all its items
MaxRecords == 2
\* most items in one items response
MaxItems == 2

----------------------------------------------------------------------------
(* Python values *)

None == [t |-> "null"]
Str(s) == [t |-> "str", s |-> s]
IntV(n) == [t |-> "int", n |-> n]
\* a float with one decimal digit, held as its tenths: 4.5 is FloatV(45)
FloatV(n10) == [t |-> "float", f |-> n10]
Bool(b) == [t |-> "bool", b |-> b]
List(seq) == [t |-> "list", l |-> seq]
\* a dict from a record: keys are Python strings
Dict(rec) == [t |-> "dict", d |-> [k \in {Str(x) : x \in DOMAIN rec} |-> rec[k.s]]]
EmptyDict == [t |-> "dict", d |-> [k \in {} |-> None]]

\* bool(v)
Truthy(v) ==
    CASE v.t = "null" -> FALSE
      [] v.t = "str" -> v.s # ""
      [] v.t = "int" -> v.n # 0
      [] v.t = "float" -> v.f # 0
      [] v.t = "bool" -> v.b
      [] v.t = "list" -> Len(v.l) > 0
      [] v.t = "dict" -> DOMAIN v.d # {}

\* isinstance(v, str)
IsStr(v) == v.t = "str"
\* isinstance(v, (int, float)): bool is a subclass of int
IsIntOrFloat(v) == v.t \in {"int", "float", "bool"}

\* k in d
Has(d, k) == Str(k) \in DOMAIN d.d
\* d[k] of a present key
Item(d, k) == d.d[Str(k)]
\* d.get(k, default)
GetOr(d, k, default) == IF Has(d, k) THEN Item(d, k) ELSE default
\* d.get(k)
Get(d, k) == GetOr(d, k, None)
\* d[key] = v, key a Python value
DictSet(d, key, v) ==
    [t |-> "dict", d |-> [k \in DOMAIN d.d \cup {key} |-> IF k = key THEN v ELSE d.d[k]]]

\* digits of a natural number
NatStr(n) == ToString(n)
\* str(v) of a scalar
PyStr(v) ==
    CASE v.t = "null" -> "None"
      [] v.t = "str" -> v.s
      [] v.t = "int" -> IF v.n < 0 THEN "-" \o NatStr(-v.n) ELSE NatStr(v.n)
      [] v.t = "float" ->
            IF v.f < 0
            THEN "-" \o NatStr((-v.f) \div 10) \o "." \o NatStr((-v.f) % 10)
            ELSE NatStr(v.f \div 10) \o "." \o NatStr(v.f % 10)
      [] v.t = "bool" -> IF v.b THEN "True" ELSE "False"

\* float(v) of an int, float or bool
PyFloat(v) ==
    CASE v.t = "int" -> FloatV(v.n * 10)
      [] v.t = "float" -> v
      [] v.t = "bool" -> FloatV(IF v.b THEN 10 ELSE 0)

\* s.startswith(prefix)
StartsWith(s, prefix) ==
    Len(s) >= Len(prefix) /\ SubSeq(s, 1, Len(prefix)) = prefix

----------------------------------------------------------------------------
(* How a call ends *)

Ok(v) == [st |-> "ok", val |-> v]
\* raise GitHubClientError(msg)
Raise(msg) == [st |-> "err", msg |-> msg]
\* any other exception type leaving the engine
Crash(exc) == [st |-> "crash", exc |-> exc]
Running == [st |-> "none"]

----------------------------------------------------------------------------
(* Transport: what one HTTP POST can produce *)

HttpError == [k |-> "status", code |-> "502"]
NetworkError == [k |-> "exc", text |-> "timed out"]
Json(body) == [k |-> "json", body |-> body]
Data(rec) == Json(Dict([data |-> Dict(rec)]))

RemoteErrors == List(<<Str("Could not resolve")>>)

\* a response that reports errors and carries data as well
Partial(rec) == Json(Dict([errors |-> RemoteErrors, data |-> Dict(rec)]))

\* the failing outcomes every call can meet
Failures ==
    { HttpError,
      NetworkError,
      Json(Dict([errors |-> RemoteErrors])),
      Json(Dict([data |-> None])) }

\* execute_query as it would be if the data of a response were returned
\* whenever there is any, errors or not
execute_query_data_first(raw) ==
    CASE raw.k = "status" ->
            Raise("HTTP error executing GraphQL query: " \o raw.code \o " - Bad Gateway")
      [] raw.k = "exc" ->
            Raise("Unexpected error executing GraphQL query: " \o raw.text)
      [] raw.k = "json" ->
            IF Get(raw.body, "data") # None THEN Ok(Get(raw.body, "data"))
            ELSE IF Has(raw.body, "errors")
            THEN Raise("Unexpected error executing GraphQL query: "
                       \o "GraphQL query errors: [...]")
            ELSE Raise("Unexpected error executing GraphQL query: "
                       \o "GraphQL query returned no data and no errors.")

\* execute_query: the outcome of one POST as the caller sees it.  Both raises
\* inside the try block are caught again by `except Exception` and re-raised.
execute_query(raw) ==
    CASE raw.k = "status" ->
            Raise("HTTP error executing GraphQL query: " \o raw.code \o " - Bad Gateway")
      [] raw.k = "exc" ->
            Raise("Unexpected error executing GraphQL query: " \o raw.text)
      [] raw.k = "json" ->
            IF Has(raw.body, "errors")
            THEN Raise("Unexpected error executing GraphQL query: "
                       \o "GraphQL query errors: [...]")
            ELSE IF Get(raw.body, "data") = None
            THEN Raise("Unexpected error executing GraphQL query: "
                       \o "GraphQL query returned no data and no errors.")
            ELSE Ok(Get(raw.body, "data"))

\* one execute_query call as recorded: the query's name and its variables
Call(q, v) == [q |-> q, v |-> v]

\* Release as it would be if the client were closed only after a normal return
Release_on_success(outcome) == outcome.st = "ok"

\* whether leaving `async with httpx.AsyncClient()` closes the session of a call
\* that ends as outcome: the context manager exits on a return and on a raise
Release(outcome) == outcome.st \in {"ok", "err", "crash"}

----------------------------------------------------------------------------
(* Arguments the operations are called with *)

Owners == {"acme"}
ProjectNumbers == {1}

----------------------------------------------------------------------------
(* get_project_node_id *)

ProjectNotFound(owner, number) ==
    Raise("Project " \o ToString(number) \o " not found for owner " \o owner \o ".")

\* the id of a matched projectV2 object
ProjectIdOf(branch) ==
    LET project == Item(branch, "projectV2")
    IN IF Has(project, "id") THEN Ok(Item(project, "id")) ELSE Crash("KeyError")

\* a branch of the lookup carries a project
BranchHasProject(result, branch) ==
    Truthy(Get(result, branch)) /\ Truthy(Get(Get(result, branch), "projectV2"))

\* get_project_node_id as it would be if the user branch were tried first
get_project_node_id_user_first(owner, number, r) ==
    IF r.st # "ok" THEN r
    ELSE IF BranchHasProject(r.val, "user")
         THEN ProjectIdOf(Item(r.val, "user"))
    ELSE IF BranchHasProject(r.val, "organization")
         THEN ProjectIdOf(Item(r.val, "organization"))
    ELSE ProjectNotFound(owner, number)

\* get_project_node_id as it would be if it returned None for a missing project
get_project_node_id_lenient(owner, number, r) ==
    IF r.st # "ok" THEN r
    ELSE IF BranchHasProject(r.val, "organization")
         THEN ProjectIdOf(Item(r.val, "organization"))
    ELSE IF BranchHasProject(r.val, "user")
         THEN ProjectIdOf(Item(r.val, "user"))
    ELSE Ok(None)

\* get_project_node_id after its execute_query call ended as r
get_project_node_id(owner, number, r) ==
    IF r.st # "ok" THEN r
    ELSE IF BranchHasProject(r.val, "organization")
         THEN ProjectIdOf(Item(r.val, "organization"))
    ELSE IF BranchHasProject(r.val, "user")
         THEN ProjectIdOf(Item(r.val, "user"))
    ELSE ProjectNotFound(owner, number)

\* one branch of a GetProjectId response
ProjectBranches(id) ==
    { None, Dict([projectV2 |-> None]), Dict([projectV2 |-> Dict([id |-> Str(id)])]) }

\* one branch resolved, the other reported as an error
PartialProjectIdResponses ==
    { Partial([organization |-> None,
               user |-> Dict([projectV2 |-> Dict([id |-> Str("PVT_user")])])]),
      Partial([organization |-> Dict([projectV2 |-> Dict([id |-> Str("PVT_org")])]),
               user |-> None]) }

ProjectIdResponses ==
    Failures \cup PartialProjectIdResponses \cup
    { Data([organization |-> o, user |-> u]) :
        o \in ProjectBranches("PVT_org"), u \in ProjectBranches("PVT_user") }

----------------------------------------------------------------------------
(* The project at GitHub, as far as the queries of the client tell *)

\* the remote is not followed: a call can be answered with any response
Untracked == [known |-> FALSE]
\* the project holds these items, in the order its items connection lists them
Holding(items) == [known |-> TRUE, items |-> items]

\* the item a successful addProjectV2DraftIssue creates
NewDraft(title) ==
    Dict([id |-> Str("PVTI_new"), type |-> Str("DRAFT_ISSUE"),
          fieldValues |-> Dict([nodes |-> List(<<>>)]),
          content |-> Dict([__typename |-> Str("DraftIssue"), id |-> Str("DI_new"),
                            title |-> Str(title)])])

\* seq with x put at place p
InsertAt(seq, p, x) == SubSeq(seq, 1, p - 1) \o <<x>> \o SubSeq(seq, p, Len(seq))

\* the mutation of call was carried out and said so
Created(call, raw) ==
    /\ call.q = "AddDraftIssueToProject"
    /\ raw.k = "json"
    /\ ~Has(raw.body, "errors")
    /\ Get(raw.body, "data") # None
    /\ Get(Item(raw.body, "data"), "addProjectV2DraftIssue") # None
    /\ Get(Item(Item(raw.body, "data"), "addProjectV2DraftIssue"), "projectItem") # None

\* what the project holds after call was answered with raw: a created draft
\* has its place in the connection, which place the queries do not say
Served(store, call, raw) ==
    IF store.known /\ Created(call, raw)
    THEN { Holding(InsertAt(store.items, p, NewDraft(call.v.title))) :
             p \in 1..(Len(store.items) + 1) }
    ELSE {store}

\* FirstItems as it would be if the page were one item short of n
FirstItems_one_short(store, n) ==
    List(SubSeq(store.items, 1,
                IF n - 1 < Len(store.items) THEN n - 1 ELSE Len(store.items)))

\* items(first: n) of the project
FirstItems(store, n) ==
    List(SubSeq(store.items, 1, IF n < Len(store.items) THEN n ELSE Len(store.items)))

\* no operation is suspended
Nobody == [pc |-> "idle"]

----------------------------------------------------------------------------
(* Steps shared by the operations *)

NoLocals == [project_id |-> None]
NoTool == [name |-> "none"]

\* who awaits the operation that starts: the shell tool t, or a caller of the
\* engine itself
Called(t) == tool' = t /\ out' = Running
Direct == Called(NoTool)

\* the calls of the running operation whose session is open: the call awaited
\* and every ended call whose session was not released
OpenSessions ==
    {i \in 1..Len(calls) : i > Len(released) \/ ~released[i]}

\* an operation starts and issues its first execute_query call
Begin(operation, first) ==
    /\ pc = "idle"
    /\ out = Running
    /\ pc' = first.q
    /\ op' = operation
    /\ locals' = NoLocals
    /\ calls' = <<first>>
    /\ replies' = <<>>
    /\ released' = <<>>
    /\ ret' = Running
    /\ UNCHANGED <<resolved, leaked, remote, other>>

\* the awaited execute_query call ends with what the transport produced
Received(raw) ==
    /\ replies' = Append(replies, raw)
    /\ released' = Append(released, Release(execute_query(raw)))
    /\ remote' \in Served(remote, calls[Len(calls)], raw)
    /\ UNCHANGED <<leaked, tool, out, other>>

\* the operation leaves with r: a returned value or a raised exception
Finish(r) ==
    /\ pc' = "done"
    /\ ret' = r
    /\ UNCHANGED <<op, calls>>

\* the operation issues its next execute_query call
Await(next) ==
    /\ pc' = next.q
    /\ calls' = Append(calls, next)
    /\ UNCHANGED <<op, ret>>

\* the caller has taken the outcome; nothing of the invocation is kept
Return ==
    /\ \/ pc = "done" /\ (tool = NoTool \/ out # Running)
       \/ pc = "idle" /\ out # Running
    /\ pc' = "idle"
    /\ tool' = NoTool
    /\ out' = Running
    /\ op' = [name |-> "none"]
    /\ locals' = NoLocals
    /\ calls' = <<>>
    /\ replies' = <<>>
    /\ released' = <<>>
    /\ leaked' = leaked + Cardinality(OpenSessions)
    /\ ret' = Running
    /\ UNCHANGED <<resolved, remote, other>>

----------------------------------------------------------------------------
(* get_projects *)

ProjectsPageSize == 50

\* OwnerNotFound as it would be if an unknown owner simply had no projects
OwnerNotFound_no_projects(owner) == Ok(List(<<>>))

OwnerNotFound(owner) ==
    Raise("Owner " \o owner \o " not found or type could not be determined.")

\* owner_type as it would be if the user branch were tested first
owner_type_user_first(result) ==
    IF Truthy(Get(result, "user")) THEN "user"
    ELSE IF Truthy(Get(result, "organization")) THEN "organization"
    ELSE "none"

\* owner_type after the GetOwnerType response
owner_type(result) ==
    IF Truthy(Get(result, "organization")) THEN "organization"
    ELSE IF Truthy(Get(result, "user")) THEN "user"
    ELSE "none"

OwnerEntity(id, login, kind) ==
    Dict([id |-> Str(id), login |-> Str(login), __typename |-> Str(kind)])

OwnerTypeResponses(owner) ==
    Failures \cup
    { Partial([organization |-> None, user |-> OwnerEntity("U_1", owner, "User")]),
      Partial([organization |-> OwnerEntity("O_1", owner, "Organization"), user |-> None]) }
    \cup
    { Data([organization |-> o, user |-> u]) :
        o \in {None, OwnerEntity("O_1", owner, "Organization")},
        u \in {None, OwnerEntity("U_1", owner, "User")} }

Project(id, number, title) ==
    Dict([id |-> Str(id), number |-> IntV(number), title |-> Str(title),
          shortDescription |-> None, url |-> Str("https://x"),
          closed |-> Bool(FALSE), public |-> Bool(TRUE)])

ProjectPages ==
    { List(<<>>),
      List(<<Project("P1", 1, "Roadmap")>>),
      List(<<Project("P2", 2, "Backlog"), Project("P1", 1, "Roadmap")>>) }

\* the scoped entity of a GetOrgProjects / GetUserProjects response
ScopedOwners ==
    { None, Dict([projectsV2 |-> None]) } \cup
    { Dict([projectsV2 |-> Dict([nodes |-> page])]) : page \in ProjectPages }

ProjectsResponses(branch) ==
    Failures \cup
    { Json(Dict([data |-> [t |-> "dict", d |-> [k \in {Str(branch)} |-> e]]])) :
        e \in ScopedOwners }

\* scoped_projects as it would be if an empty page were taken for a missing one
scoped_projects_nonempty(owner, branch, r) ==
    IF r.st # "ok" THEN r
    ELSE IF ~Truthy(Get(r.val, branch))
            \/ ~Truthy(Get(Item(r.val, branch), "projectsV2"))
            \/ ~Truthy(Get(Item(Item(r.val, branch), "projectsV2"), "nodes"))
         THEN Raise("Could not retrieve projects for " \o branch \o " " \o owner)
    ELSE Ok(Item(Item(Item(r.val, branch), "projectsV2"), "nodes"))

\* the scoped fetch after its execute_query call ended as r
scoped_projects(owner, branch, r) ==
    IF r.st # "ok" THEN r
    ELSE IF ~Truthy(Get(r.val, branch))
            \/ ~Truthy(Get(Item(r.val, branch), "projectsV2"))
         THEN Raise("Could not retrieve projects for " \o branch \o " " \o owner)
    ELSE LET page == Item(Item(r.val, branch), "projectsV2")
         IN IF Has(page, "nodes") THEN Ok(Item(page, "nodes")) ELSE Crash("KeyError")

get_projects(owner) ==
    Begin([name |-> "get_projects", owner |-> owner],
          Call("GetOwnerType", [login |-> owner]))

\* the owner-type lookup has ended: decide the kind and issue the scoped fetch
get_projects_owner ==
    /\ pc = "GetOwnerType"
    /\ \E raw \in OwnerTypeResponses(op.owner) :
         /\ Received(raw)
         /\ LET r == execute_query(raw)
                kind == owner_type(r.val)
                scoped == IF kind = "organization" THEN "GetOrgProjects"
                          ELSE "GetUserProjects"
            IN IF r.st # "ok" THEN Finish(r)
               ELSE IF kind = "none" THEN Finish(OwnerNotFound(op.owner))
               ELSE IF ~Has(Item(r.val, kind), "id") THEN Finish(Crash("KeyError"))
               ELSE Await(Call(scoped, [login |-> op.owner, first |-> ProjectsPageSize]))
    /\ UNCHANGED <<locals, resolved>>

get_projects_org ==
    /\ pc = "GetOrgProjects"
    /\ \E raw \in ProjectsResponses("organization") :
         /\ Received(raw)
         /\ Finish(scoped_projects(op.owner, "organization", execute_query(raw)))
    /\ UNCHANGED <<locals, resolved>>

get_projects_user ==
    /\ pc = "GetUserProjects"
    /\ \E raw \in ProjectsResponses("user") :
         /\ Received(raw)
         /\ Finish(scoped_projects(op.owner, "user", execute_query(raw)))
    /\ UNCHANGED <<locals, resolved>>

----------------------------------------------------------------------------
(* What every operation on a project does first *)

\* {key: v}
Dict1(key, v) == [t |-> "dict", d |-> [k \in {Str(key)} |-> v]]

ProjectIdCall(owner, number) ==
    Call("GetProjectId", [login |-> owner, number |-> number])

\* the GetProjectId call of `name` has ended as pid: leave with its failure, or
\* keep the id and go on with `continue`
AfterProjectId(pid, continue) ==
    IF pid.st # "ok"
    THEN Finish(pid) /\ UNCHANGED <<locals, resolved>>
    ELSE /\ locals' = [locals EXCEPT !.project_id = pid.val]
         /\ resolved' = resolved \cup {<<op.owner, op.number>>}
         /\ continue

\* a mutation's data: the nested success payload, under its root
MutationResponses(root, nested, payloads) ==
    Failures \cup
    { Json(Dict([data |-> Dict1(root, e)])) :
        e \in {None, Dict1(nested, None)} \cup {Dict1(nested, x) : x \in payloads} }

\* NestedPayload as it would be if only a missing or null payload were refused
NestedPayload_null_only(r, root, nested, failure) ==
    IF r.st # "ok" THEN r
    ELSE IF Get(r.val, root) = None \/ Get(Item(r.val, root), nested) = None
         THEN Raise(failure)
    ELSE Ok(Item(Item(r.val, root), nested))

\* the check every operation makes of a fetched or mutated payload
NestedPayload(r, root, nested, failure) ==
    IF r.st # "ok" THEN r
    ELSE IF ~Truthy(Get(r.val, root)) \/ ~Truthy(Get(Item(r.val, root), nested))
         THEN Raise(failure)
    ELSE Ok(Item(Item(r.val, root), nested))

----------------------------------------------------------------------------
(* update_project_item_field *)

FieldIds == {"PVTSSF_1", "PVTIF_1", "PVTF_1", "PVTDF_1", "PVTNU_123", "FLD_9", "PVT"}
FieldValues ==
    { Str("OPT_1"), Str("not-a-number"), IntV(42), FloatV(45), Bool(TRUE), None }
ItemIds == {"I1"}

InvalidValueType(kind, field_id, expected) ==
    Raise("Invalid value type for " \o kind \o " field " \o field_id
          \o ". Expected " \o expected)

\* text_input as it would be if a non-string were rejected, as the other branches do
text_input_strings_only(value) ==
    IF IsStr(value) THEN Ok(Dict([text |-> value]))
    ELSE Raise("Invalid value type for text field. Expected string.")

\* the text branch: a string as it is, anything else through str()
text_input(value) ==
    IF IsStr(value) THEN Ok(Dict([text |-> value]))
    ELSE Ok(Dict([text |-> Str(PyStr(value))]))

\* number_input as it would be without the float() conversion
number_input_unconverted(field_id, value) ==
    IF IsIntOrFloat(value) THEN Ok(Dict([number |-> value]))
    ELSE InvalidValueType("number", field_id, "int or float.")

\* the number branch: int or float, sent as a float
number_input(field_id, value) ==
    IF IsIntOrFloat(value) THEN Ok(Dict([number |-> PyFloat(value)]))
    ELSE InvalidValueType("number", field_id, "int or float.")

\* the fallback for an id with none of the prefixes
unknown_input(value) == Ok(Dict([text |-> Str(PyStr(value))]))

\* field_value_input, from the prefix of the field id and the type of the value
field_value_input(field_id, value) ==
    IF StartsWith(field_id, "PVTSSF_")
    THEN IF IsStr(value) THEN Ok(Dict([singleSelectOptionId |-> value]))
         ELSE InvalidValueType("single select", field_id, "option ID string.")
    ELSE IF StartsWith(field_id, "PVTIF_")
    THEN IF IsStr(value) THEN Ok(Dict([iterationId |-> value]))
         ELSE InvalidValueType("iteration", field_id, "iteration ID string.")
    ELSE IF StartsWith(field_id, "PVTF_") THEN text_input(value)
    ELSE IF StartsWith(field_id, "PVTDF_")
    THEN IF IsStr(value) THEN Ok(Dict([date |-> value]))
         ELSE InvalidValueType("date", field_id, "date string (YYYY-MM-DD).")
    ELSE IF StartsWith(field_id, "PVTNU_") THEN number_input(field_id, value)
    ELSE unknown_input(value)

update_project_item_field(owner, number, item_id, field_id, value) ==
    Begin([name |-> "update_project_item_field", owner |-> owner, number |-> number,
           item_id |-> item_id, field_id |-> field_id, value |-> value],
          ProjectIdCall(owner, number))

\* the project id has come back: infer the input, then issue the mutation
update_project_item_field_input ==
    /\ pc = "GetProjectId"
    /\ op.name = "update_project_item_field"
    /\ \E raw \in ProjectIdResponses :
         /\ Received(raw)
         /\ LET pid == get_project_node_id(op.owner, op.number, execute_query(raw))
                input == field_value_input(op.field_id, op.value)
            IN AfterProjectId(pid,
                 IF input.st # "ok" THEN Finish(input)
                 ELSE Await(Call("UpdateProjectFieldValue",
                                 [projectId |-> pid.val, itemId |-> op.item_id,
                                  fieldId |-> op.field_id, value |-> input.val])))

update_project_item_field_result ==
    /\ pc = "UpdateProjectFieldValue"
    /\ \E raw \in MutationResponses("updateProjectV2ItemFieldValue", "projectV2Item",
                                    {Dict([id |-> Str(op.item_id)])}) :
         /\ Received(raw)
         /\ Finish(NestedPayload(execute_query(raw),
                                 "updateProjectV2ItemFieldValue", "projectV2Item",
                                 "Failed to update field value for item " \o op.item_id))
    /\ UNCHANGED <<locals, resolved>>

----------------------------------------------------------------------------
(* delete_project_item *)

delete_project_item(owner, number, item_id) ==
    Begin([name |-> "delete_project_item", owner |-> owner, number |-> number,
           item_id |-> item_id],
          ProjectIdCall(owner, number))

delete_project_item_mutation ==
    /\ pc = "GetProjectId"
    /\ op.name = "delete_project_item"
    /\ \E raw \in ProjectIdResponses :
         /\ Received(raw)
         /\ LET pid == get_project_node_id(op.owner, op.number, execute_query(raw))
            IN AfterProjectId(pid,
                 Await(Call("DeleteProjectItem",
                            [projectId |-> pid.val, itemId |-> op.item_id])))

delete_project_item_result ==
    /\ pc = "DeleteProjectItem"
    /\ \E raw \in MutationResponses("deleteProjectV2Item", "deletedItemId",
                                    {Str(op.item_id), Str("")}) :
         /\ Received(raw)
         /\ Finish(NestedPayload(execute_query(raw),
                                 "deleteProjectV2Item", "deletedItemId",
                                 "Failed to delete item " \o op.item_id))
    /\ UNCHANGED <<locals, resolved>>

----------------------------------------------------------------------------
(* add_draft_issue_to_project *)

Titles == {"T"}
Bodies == {"", "B"}

add_draft_issue_to_project(owner, number, title, body) ==
    Begin([name |-> "add_draft_issue_to_project", owner |-> owner, number |-> number,
           title |-> title, body |-> body],
          ProjectIdCall(owner, number))

add_draft_issue_to_project_mutation ==
    /\ pc = "GetProjectId"
    /\ op.name = "add_draft_issue_to_project"
    /\ \E raw \in ProjectIdResponses :
         /\ Received(raw)
         /\ LET pid == get_project_node_id(op.owner, op.number, execute_query(raw))
            IN AfterProjectId(pid,
                 Await(Call("AddDraftIssueToProject",
                            [projectId |-> pid.val, title |-> op.title, body |-> op.body])))

add_draft_issue_to_project_result ==
    /\ pc = "AddDraftIssueToProject"
    /\ \E raw \in MutationResponses("addProjectV2DraftIssue", "projectItem",
                                    {Dict([id |-> Str("PVTI_new")])}) :
         /\ Received(raw)
         /\ Finish(NestedPayload(execute_query(raw),
                                 "addProjectV2DraftIssue", "projectItem",
                                 "Failed to add draft issue to project "
                                 \o ToString(op.number)))
    /\ UNCHANGED <<locals, resolved>>

----------------------------------------------------------------------------
(* add_issue_to_project *)

IssueNumbers == {7}

add_issue_to_project(owner, number, issue_owner, issue_repo, issue_number) ==
    Begin([name |-> "add_issue_to_project", owner |-> owner, number |-> number,
           issue_owner |-> issue_owner, issue_repo |-> issue_repo,
           issue_number |-> issue_number],
          ProjectIdCall(owner, number))

add_issue_to_project_issue ==
    /\ pc = "GetProjectId"
    /\ op.name = "add_issue_to_project"
    /\ \E raw \in ProjectIdResponses :
         /\ Received(raw)
         /\ LET pid == get_project_node_id(op.owner, op.number, execute_query(raw))
            IN AfterProjectId(pid,
                 Await(Call("GetIssueId",
                            [owner |-> op.issue_owner, repo |-> op.issue_repo,
                             number |-> op.issue_number])))

IssueIdResponses ==
    Failures \cup
    { Data([repository |-> e]) :
        e \in {None, Dict([issue |-> None]), Dict([issue |-> Dict([id |-> Str("I_7")])])} }

add_issue_to_project_mutation ==
    /\ pc = "GetIssueId"
    /\ \E raw \in IssueIdResponses :
         /\ Received(raw)
         /\ LET issue == NestedPayload(execute_query(raw), "repository", "issue",
                           "Issue " \o ToString(op.issue_number) \o " not found in "
                           \o op.issue_owner \o "/" \o op.issue_repo)
            IN IF issue.st # "ok" THEN Finish(issue)
               ELSE IF ~Has(issue.val, "id") THEN Finish(Crash("KeyError"))
               ELSE Await(Call("AddItemToProject",
                               [projectId |-> locals.project_id,
                                contentId |-> Item(issue.val, "id")]))
    /\ UNCHANGED <<locals, resolved>>

add_issue_to_project_result ==
    /\ pc = "AddItemToProject"
    /\ \E raw \in MutationResponses("addProjectV2ItemById", "item",
                                    {Dict([id |-> Str("PVTI_new")])}) :
         /\ Received(raw)
         /\ Finish(NestedPayload(execute_query(raw), "addProjectV2ItemById", "item",
                                 "Failed to add issue " \o ToString(op.issue_number)
                                 \o " to project " \o ToString(op.number)))
    /\ UNCHANGED <<locals, resolved>>

----------------------------------------------------------------------------
(* create_issue *)

Repos == {"repo"}

RepositoryNotFound(owner, repo) ==
    Raise("Repository " \o owner \o "/" \o repo \o " not found")

\* repository_id as it would be if a missing repository were not checked for
repository_id_unchecked(owner, repo, r) ==
    IF r.st # "ok" THEN r
    ELSE IF ~Truthy(Get(r.val, "repository")) THEN Ok(None)
    ELSE Ok(Item(Item(r.val, "repository"), "id"))

\* the repository id after the GetRepositoryId response
repository_id(owner, repo, r) ==
    IF r.st # "ok" THEN r
    ELSE IF ~Truthy(Get(r.val, "repository")) THEN RepositoryNotFound(owner, repo)
    ELSE IF ~Has(Item(r.val, "repository"), "id") THEN Crash("KeyError")
    ELSE Ok(Item(Item(r.val, "repository"), "id"))

RepositoryIdResponses ==
    Failures \cup
    { Data([repository |-> e]) : e \in {None, Dict([id |-> Str("R_1")])} }

create_issue(owner, repo, title, body) ==
    Begin([name |-> "create_issue", owner |-> owner, repo |-> repo,
           title |-> title, body |-> body],
          Call("GetRepositoryId", [owner |-> owner, name |-> repo]))

create_issue_mutation ==
    /\ pc = "GetRepositoryId"
    /\ \E raw \in RepositoryIdResponses :
         /\ Received(raw)
         /\ LET id == repository_id(op.owner, op.repo, execute_query(raw))
            IN IF id.st # "ok" THEN Finish(id)
               ELSE Await(Call("CreateIssue",
                               [repositoryId |-> id.val, title |-> op.title,
                                body |-> op.body]))
    /\ UNCHANGED <<locals, resolved>>

create_issue_result ==
    /\ pc = "CreateIssue"
    /\ \E raw \in MutationResponses("createIssue", "issue",
                                    {Dict([id |-> Str("I_new"), number |-> IntV(8),
                                           title |-> Str(op.title),
                                           url |-> Str("https://x/8"),
                                           state |-> Str("OPEN")])}) :
         /\ Received(raw)
         /\ Finish(NestedPayload(execute_query(raw), "createIssue", "issue",
                                 "Failed to create issue in " \o op.owner \o "/" \o op.repo))
    /\ UNCHANGED <<locals, resolved>>

----------------------------------------------------------------------------
(* update_project_settings *)

SettingTitles == {None, Str(""), Str("Roadmap 2")}
SettingDescriptions == {None, Str(""), Str("plans")}
SettingPublics == {None, Bool(FALSE), Bool(TRUE)}

\* input_params as it would be if a setting were tested for truth
input_params_truthy(project_id, title, description, public) ==
    LET base == Dict([projectId |-> project_id])
        withTitle == IF Truthy(title) THEN DictSet(base, Str("title"), title) ELSE base
        withDescription ==
            IF Truthy(description)
            THEN DictSet(withTitle, Str("shortDescription"), description)
            ELSE withTitle
    IN IF Truthy(public) THEN DictSet(withDescription, Str("public"), public)
       ELSE withDescription

\* input_params: only the settings that were supplied
input_params(project_id, title, description, public) ==
    LET base == Dict([projectId |-> project_id])
        withTitle == IF title # None THEN DictSet(base, Str("title"), title) ELSE base
        withDescription ==
            IF description # None
            THEN DictSet(withTitle, Str("shortDescription"), description)
            ELSE withTitle
    IN IF public # None THEN DictSet(withDescription, Str("public"), public)
       ELSE withDescription

update_project_settings(owner, number, title, description, public) ==
    Begin([name |-> "update_project_settings", owner |-> owner, number |-> number,
           title |-> title, description |-> description, public |-> public],
          ProjectIdCall(owner, number))

update_project_settings_mutation ==
    /\ pc = "GetProjectId"
    /\ op.name = "update_project_settings"
    /\ \E raw \in ProjectIdResponses :
         /\ Received(raw)
         /\ LET pid == get_project_node_id(op.owner, op.number, execute_query(raw))
            IN AfterProjectId(pid,
                 Await(Call("UpdateProject",
                            [input |-> input_params(pid.val, op.title, op.description,
                                                    op.public)])))

update_project_settings_result ==
    /\ pc = "UpdateProject"
    /\ \E raw \in MutationResponses("updateProjectV2", "projectV2",
                                    {Dict([id |-> locals.project_id])}) :
         /\ Received(raw)
         /\ Finish(NestedPayload(execute_query(raw), "updateProjectV2", "projectV2",
                                 "Failed to update project " \o ToString(op.number)))
    /\ UNCHANGED <<locals, resolved>>

----------------------------------------------------------------------------
(* get_project_fields *)

PlainField == Dict([id |-> Str("PVTF_1"), name |-> Str("Title"),
                    __typename |-> Str("ProjectV2Field")])
IterationField ==
    Dict([id |-> Str("PVTIF_1"), name |-> Str("Sprint"),
          __typename |-> Str("ProjectV2IterationField"),
          configuration |-> Dict([iterations |-> List(<<
              Dict([id |-> Str("it2"), title |-> Str("Sprint 2"),
                    startDate |-> Str("2025-01-15"), duration |-> IntV(14)]),
              Dict([id |-> Str("it1"), title |-> Str("Sprint 1"),
                    startDate |-> Str("2025-01-01"), duration |-> IntV(14)])>>)])])
SingleSelectField ==
    Dict([id |-> Str("PVTSSF_1"), name |-> Str("Status"),
          __typename |-> Str("ProjectV2SingleSelectField"),
          options |-> List(<<
              Dict([id |-> Str("o2"), name |-> Str("Done"),
                    color |-> Str("GREEN"), description |-> Str("")]),
              Dict([id |-> Str("o1"), name |-> Str("Todo"),
                    color |-> Str("GRAY"), description |-> Str("")])>>)])

FieldPages ==
    { List(<<>>), List(<<PlainField>>),
      List(<<SingleSelectField, PlainField, IterationField>>) }

\* a node(id:) response carrying a connection named `collection`
NodeResponses(collection, pages) ==
    Failures \cup
    { Data([node |-> e]) :
        e \in {None, Dict1(collection, None)}
              \cup {Dict1(collection, Dict([nodes |-> page])) : page \in pages} }

\* result["node"][collection]["nodes"] after the presence check
NodesOf(r, collection, failure) ==
    LET got == NestedPayload(r, "node", collection, failure)
    IN IF got.st # "ok" THEN got
       ELSE IF Has(got.val, "nodes") THEN Ok(Item(got.val, "nodes"))
       ELSE Crash("KeyError")

get_project_fields(owner, number) ==
    Begin([name |-> "get_project_fields", owner |-> owner, number |-> number],
          ProjectIdCall(owner, number))

get_project_fields_query ==
    /\ pc = "GetProjectId"
    /\ op.name = "get_project_fields"
    /\ \E raw \in ProjectIdResponses :
         /\ Received(raw)
         /\ LET pid == get_project_node_id(op.owner, op.number, execute_query(raw))
            IN AfterProjectId(pid,
                 Await(Call("GetProjectFields", [projectId |-> pid.val])))

get_project_fields_result ==
    /\ pc = "GetProjectFields"
    /\ \E raw \in NodeResponses("fields", FieldPages) :
         /\ Received(raw)
         /\ Finish(NodesOf(execute_query(raw), "fields",
                           "Could not retrieve fields for project " \o op.owner \o "/"
                           \o ToString(op.number)))
    /\ UNCHANGED <<locals, resolved>>

----------------------------------------------------------------------------
(* get_project_items *)

DefaultLimit == 20

FieldRef(name) == Dict([name |-> name])

\* raw field-value records as the remote API can send them
TextValue ==
    Dict([__typename |-> Str("ProjectV2ItemFieldTextValue"), text |-> Str("hello"),
          field |-> FieldRef(Str("Status"))])
DateValue ==
    Dict([__typename |-> Str("ProjectV2ItemFieldDateValue"), date |-> Str("2025-03-01"),
          field |-> FieldRef(Str("Due"))])
SingleSelectValue ==
    Dict([__typename |-> Str("ProjectV2ItemFieldSingleSelectValue"), name |-> Str("Done"),
          field |-> FieldRef(Str("Status"))])
NumberValue ==
    Dict([__typename |-> Str("ProjectV2ItemFieldNumberValue"), number |-> FloatV(35),
          field |-> FieldRef(Str("Points"))])
IterationValue ==
    Dict([__typename |-> Str("ProjectV2ItemFieldIterationValue"),
          title |-> Str("Sprint 4"), startDate |-> Str("2025-01-01"),
          duration |-> IntV(14), field |-> FieldRef(Str("Sprint"))])
\* a value type the query names no fragment for comes back as an empty object
UnselectedValue == EmptyDict
LabelValue ==
    Dict([__typename |-> Str("ProjectV2ItemFieldLabelValue"),
          field |-> FieldRef(Str("Labels"))])
NullFieldValue ==
    Dict([__typename |-> Str("ProjectV2ItemFieldTextValue"), text |-> Str("orphan"),
          field |-> None])
UnnamedFieldValue ==
    Dict([__typename |-> Str("ProjectV2ItemFieldDateValue"), date |-> Str("2025-04-01"),
          field |-> EmptyDict])
NullTextValue ==
    Dict([__typename |-> Str("ProjectV2ItemFieldTextValue"), text |-> None,
          field |-> FieldRef(None)])

RawFieldValues ==
    { TextValue, DateValue, SingleSelectValue, NumberValue, IterationValue,
      UnselectedValue, LabelValue, NullFieldValue, UnnamedFieldValue, NullTextValue }

\* fv.get("field", {}).get("name", "UnknownField")
field_name(fv) ==
    LET field == GetOr(fv, "field", EmptyDict)
    IN IF field.t # "dict" THEN Crash("AttributeError")
       ELSE Ok(GetOr(field, "name", Str("UnknownField")))

\* field_scalar as it would be if an iteration gave its title alone
field_scalar_title_only(fv) ==
    LET fv_type == Get(fv, "__typename")
    IN IF fv_type = Str("ProjectV2ItemFieldTextValue") THEN GetOr(fv, "text", Str("N/A"))
       ELSE IF fv_type = Str("ProjectV2ItemFieldDateValue")
            THEN GetOr(fv, "date", Str("N/A"))
       ELSE IF fv_type = Str("ProjectV2ItemFieldSingleSelectValue")
            THEN GetOr(fv, "name", Str("N/A"))
       ELSE IF fv_type = Str("ProjectV2ItemFieldNumberValue")
            THEN GetOr(fv, "number", Str("N/A"))
       ELSE IF fv_type = Str("ProjectV2ItemFieldIterationValue")
            THEN GetOr(fv, "title", Str("N/A"))
       ELSE Str("N/A")

\* the scalar of one record, chosen by fv.get("__typename")
field_scalar(fv) ==
    LET fv_type == Get(fv, "__typename")
    IN IF fv_type = Str("ProjectV2ItemFieldTextValue") THEN GetOr(fv, "text", Str("N/A"))
       ELSE IF fv_type = Str("ProjectV2ItemFieldDateValue")
            THEN GetOr(fv, "date", Str("N/A"))
       ELSE IF fv_type = Str("ProjectV2ItemFieldSingleSelectValue")
            THEN GetOr(fv, "name", Str("N/A"))
       ELSE IF fv_type = Str("ProjectV2ItemFieldNumberValue")
            THEN GetOr(fv, "number", Str("N/A"))
       ELSE IF fv_type = Str("ProjectV2ItemFieldIterationValue")
            THEN Str(PyStr(GetOr(fv, "title", Str("N/A"))) \o " (Start: "
                     \o PyStr(GetOr(fv, "startDate", Str("N/A"))) \o ")")
       ELSE Str("N/A")

\* processed_values as it would be if a name already filed were not overwritten
RECURSIVE processed_values_first_wins(_, _, _)
processed_values_first_wins(nodes, i, acc) ==
    IF i > Len(nodes) THEN Ok(acc)
    ELSE IF nodes[i].t # "dict" THEN Crash("AttributeError")
    ELSE LET name == field_name(nodes[i])
         IN IF name.st # "ok" THEN name
            ELSE processed_values_first_wins(nodes, i + 1,
                    IF name.val \in DOMAIN acc.d THEN acc
                    ELSE DictSet(acc, name.val, field_scalar(nodes[i])))

\* the loop over item["fieldValues"]["nodes"], from record i on
RECURSIVE processed_values(_, _, _)
processed_values(nodes, i, acc) ==
    IF i > Len(nodes) THEN Ok(acc)
    ELSE IF nodes[i].t # "dict" THEN Crash("AttributeError")
    ELSE LET name == field_name(nodes[i])
         IN IF name.st # "ok" THEN name
            ELSE processed_values(nodes, i + 1,
                                  DictSet(acc, name.val, field_scalar(nodes[i])))

\* normalize_item as it would be if the item were built anew from its id and
\* its processed values
normalize_item_rebuilt(item) ==
    IF item.t # "dict" THEN Crash("AttributeError")
    ELSE IF Truthy(Get(item, "fieldValues"))
            /\ Truthy(Get(Item(item, "fieldValues"), "nodes"))
    THEN LET processed ==
                 processed_values(Item(Item(item, "fieldValues"), "nodes").l, 1, EmptyDict)
         IN IF processed.st # "ok" THEN processed
            ELSE Ok(Dict([id |-> Get(item, "id"), fieldValues |-> processed.val]))
    ELSE Ok(item)

\* an item's fieldValues are replaced when the wrapper and its nodes are truthy
normalize_item(item) ==
    IF item.t # "dict" THEN Crash("AttributeError")
    ELSE IF Truthy(Get(item, "fieldValues"))
            /\ Truthy(Get(Item(item, "fieldValues"), "nodes"))
    THEN LET processed ==
                 processed_values(Item(Item(item, "fieldValues"), "nodes").l, 1, EmptyDict)
         IN IF processed.st # "ok" THEN processed
            ELSE Ok(DictSet(item, Str("fieldValues"), processed.val))
    ELSE Ok(item)

\* the loop over items, from item i on
RECURSIVE normalize_items(_, _)
normalize_items(items, i) ==
    IF i > Len(items) THEN Ok(List(items))
    ELSE LET item == normalize_item(items[i])
         IN IF item.st # "ok" THEN item
            ELSE normalize_items([items EXCEPT ![i] = item.val], i + 1)

\* sequences over S of length at most n
SeqsUpTo(S, n) == UNION {[1..k -> S] : k \in 0..n}

\* the field-value lists of k items holding at most r records in all
RECURSIVE FieldValueLists(_, _)
FieldValueLists(k, r) ==
    IF k = 0 THEN {<<>>}
    ELSE UNION { {<<l>> \o rest : rest \in FieldValueLists(k - 1, r - Len(l))} :
                 l \in SeqsUpTo(RawFieldValues, r) }

DraftContent(title) ==
    Dict([__typename |-> Str("DraftIssue"), id |-> Str("DI_1"), title |-> Str(title)])

RawItem(k, fvs) ==
    Dict([id |-> Str("PVTI_" \o ToString(k)), type |-> Str("DRAFT_ISSUE"),
          fieldValues |-> Dict([nodes |-> List(fvs)]),
          content |-> DraftContent("T")])

ItemPages ==
    { List([k \in 1..Len(lists) |-> RawItem(k, lists[k])]) :
        lists \in UNION {FieldValueLists(n, MaxRecords) : n \in 0..MaxItems} }

\* the pages the items query can be answered with
ListedPages(store, limit) ==
    IF store.known THEN {FirstItems(store, limit)} ELSE ItemPages

get_project_items(owner, number, limit) ==
    Begin([name |-> "get_project_items", owner |-> owner, number |-> number,
           limit |-> limit],
          ProjectIdCall(owner, number))

get_project_items_query ==
    /\ pc = "GetProjectId"
    /\ op.name = "get_project_items"
    /\ \E raw \in ProjectIdResponses :
         /\ Received(raw)
         /\ LET pid == get_project_node_id(op.owner, op.number, execute_query(raw))
            IN AfterProjectId(pid,
                 Await(Call("GetProjectItems",
                            [projectId |-> pid.val, first |-> op.limit])))

get_project_items_result ==
    /\ pc = "GetProjectItems"
    /\ \E raw \in NodeResponses("items", ListedPages(remote, op.limit)) :
         /\ Received(raw)
         /\ LET items == NodesOf(execute_query(raw), "items",
                                 "Could not retrieve items for project " \o op.owner \o "/"
                                 \o ToString(op.number))
            IN IF items.st # "ok" THEN Finish(items)
               ELSE IF items.val.t # "list" THEN Finish(Crash("TypeError"))
               ELSE Finish(normalize_items(items.val.l, 1))
    /\ UNCHANGED <<locals, resolved>>

----------------------------------------------------------------------------
(* The tool shell (server.py): what a tool does before it calls the engine *)

\* a tool's text response
Text(s) == [st |-> "text", text |-> s]

Char(s, i) == SubSeq(s, i, i)
IsDigit(c) == \E d \in 0..9 : ToString(d) = c
DigitValue(c) == CHOOSE d \in 0..9 : ToString(d) = c
AllDigits(s) == \A i \in 1..Len(s) : IsDigit(Char(s, i))

\* the number a string of digits writes; 0 for the empty string
RECURSIVE NatOf(_)
NatOf(s) ==
    IF s = "" THEN 0
    ELSE NatOf(SubSeq(s, 1, Len(s) - 1)) * 10 + DigitValue(Char(s, Len(s)))

\* the place of the first character of s that is in cs, or 0
FirstIndex(s, cs) ==
    IF \E i \in 1..Len(s) : Char(s, i) \in cs
    THEN CHOOSE i \in 1..Len(s) :
            /\ Char(s, i) \in cs
            /\ \A j \in 1..(i - 1) : Char(s, j) \notin cs
    ELSE 0

Signed(s) == s # "" /\ Char(s, 1) \in {"+", "-"}
Unsigned(s) == IF Signed(s) THEN SubSeq(s, 2, Len(s)) ELSE s
Negative(s) == s # "" /\ Char(s, 1) = "-"

\* float(s) of a decimal literal: [sign] digits [. digits] [e [sign] digits].
\* ok is FALSE where float raises ValueError; n10 is the value in tenths.
float_of(s) ==
    LET body == Unsigned(s)
        e == FirstIndex(body, {"e", "E"})
        mantissa == IF e = 0 THEN body ELSE SubSeq(body, 1, e - 1)
        exponent == IF e = 0 THEN "" ELSE SubSeq(body, e + 1, Len(body))
        dot == FirstIndex(mantissa, {"."})
        whole == IF dot = 0 THEN mantissa ELSE SubSeq(mantissa, 1, dot - 1)
        fraction == IF dot = 0 THEN "" ELSE SubSeq(mantissa, dot + 1, Len(mantissa))
        ok == /\ AllDigits(whole) /\ AllDigits(fraction)
              /\ whole # "" \/ fraction # ""
              /\ e # 0 => Unsigned(exponent) # "" /\ AllDigits(Unsigned(exponent))
        power == IF Negative(exponent) THEN -NatOf(Unsigned(exponent))
                 ELSE NatOf(Unsigned(exponent))
        shift == power - Len(fraction) + 1
        digits == NatOf(whole \o fraction)
        tenths == IF shift >= 0 THEN digits * 10^shift ELSE digits \div 10^(-shift)
    IN IF ~ok THEN [ok |-> FALSE, n10 |-> 0]
       ELSE [ok |-> TRUE, n10 |-> IF Negative(s) THEN -tenths ELSE tenths]

\* parsed_value: the float the string writes, as an int when it is whole; the
\* string itself when float() raises ValueError
parsed_value(field_value) ==
    LET f == float_of(field_value)
    IN IF ~f.ok THEN Str(field_value)
       ELSE IF f.n10 % 10 = 0 THEN IntV(f.n10 \div 10)
       ELSE FloatV(f.n10)

\* the strings the update tool is given as field_value
ToolFieldValues == {"OPT_1", "not-a-number", "42", "42.0", "4.5", "1e3", "-7"}
States == {None, Str("OPEN")}
SearchQueries == {"bug label:backend"}
SearchLimit == 10

list_projects(owner) ==
    get_projects(owner) /\ Called([name |-> "list_projects", owner |-> owner])

get_project_fields_tool(owner, project_number) ==
    /\ get_project_fields(owner, project_number)
    /\ Called([name |-> "get_project_fields", owner |-> owner,
               project_number |-> project_number])

create_issue_tool(owner, repo, title, body) ==
    /\ create_issue(owner, repo, title, body)
    /\ Called([name |-> "create_issue", owner |-> owner, repo |-> repo,
               title |-> title, body |-> body])

add_issue_to_project_tool(owner, project_number, issue_owner, issue_repo, issue_number) ==
    /\ add_issue_to_project(owner, project_number, issue_owner, issue_repo, issue_number)
    /\ Called([name |-> "add_issue_to_project", owner |-> owner,
               project_number |-> project_number, issue_owner |-> issue_owner,
               issue_repo |-> issue_repo, issue_number |-> issue_number])

update_project_item_field_tool(owner, project_number, item_id, field_id, field_value) ==
    /\ update_project_item_field(owner, project_number, item_id, field_id,
                                 parsed_value(field_value))
    /\ Called([name |-> "update_project_item_field", owner |-> owner,
               project_number |-> project_number, item_id |-> item_id,
               field_id |-> field_id, field_value |-> field_value])

create_draft_issue(owner, project_number, title, body) ==
    /\ add_draft_issue_to_project(owner, project_number, title, body)
    /\ Called([name |-> "create_draft_issue", owner |-> owner,
               project_number |-> project_number, title |-> title, body |-> body])

delete_project_item_tool(owner, project_number, item_id) ==
    /\ delete_project_item(owner, project_number, item_id)
    /\ Called([name |-> "delete_project_item", owner |-> owner,
               project_number |-> project_number, item_id |-> item_id])

\* a tool ends without having started an engine operation
Respond(t, o) ==
    /\ pc = "idle"
    /\ out = Running
    /\ tool' = t
    /\ out' = o
    /\ UNCHANGED <<pc, op, locals, calls, replies, released, leaked, ret, resolved,
                   remote, other>>

\* the tool passes four arguments to GitHubClient.get_project_items, which
\* takes three: the call raises TypeError before anything is awaited, and the
\* tool catches GitHubClientError only
get_project_items_tool(owner, project_number, limit, state) ==
    Respond([name |-> "get_project_items", owner |-> owner,
             project_number |-> project_number, limit |-> limit, state |-> state],
            Crash("TypeError"))

\* GitHubClient has no search_and_filter_project_items: the attribute lookup
\* raises AttributeError, and the tool catches GitHubClientError and ValueError
search_project_items(owner, project_number, search_query, limit) ==
    Respond([name |-> "search_project_items", owner |-> owner,
             project_number |-> project_number, search_query |-> search_query,
             limit |-> limit],
            Crash("AttributeError"))

----------------------------------------------------------------------------
(* The tool shell: what a tool does with the outcome of the engine *)

\* the strings of a sequence, one after the other
RECURSIVE Concat(_)
Concat(strs) == IF strs = <<>> THEN "" ELSE Head(strs) \o Concat(Tail(strs))

project_lines(project) ==
    "- ID: " \o PyStr(Item(project, "id")) \o "\n"
    \o "  Number: " \o PyStr(Item(project, "number")) \o "\n"
    \o "  Title: " \o PyStr(Item(project, "title")) \o "\n"
    \o "  URL: " \o PyStr(Item(project, "url")) \o "\n"
    \o "\n"

list_projects_text(owner, projects) ==
    IF ~Truthy(projects) THEN "No projects found for " \o owner
    ELSE "Projects for " \o owner \o ":\n\n"
         \o Concat([i \in 1..Len(projects.l) |-> project_lines(projects.l[i])])

option_line(option) ==
    "    - " \o PyStr(Item(option, "name"))
    \o " (ID: " \o PyStr(Item(option, "id")) \o ")\n"

iteration_line(iteration) ==
    "    - " \o PyStr(GetOr(iteration, "title", Str("Unnamed"))) \o " "
    \o "(ID: " \o PyStr(Item(iteration, "id")) \o ", "
    \o "Start: " \o PyStr(GetOr(iteration, "startDate", Str("N/A"))) \o ")\n"

field_lines(field) ==
    "- ID: " \o PyStr(Item(field, "id")) \o "\n"
    \o "  Name: " \o PyStr(Item(field, "name")) \o "\n"
    \o "  Type: " \o PyStr(Item(field, "__typename")) \o "\n"
    \o (IF Truthy(Get(field, "options"))
        THEN LET options == Item(field, "options").l
             IN "  Options:\n"
                \o Concat([i \in 1..Len(options) |-> option_line(options[i])])
        ELSE "")
    \o (IF Truthy(Get(field, "configuration"))
           /\ Truthy(Get(Item(field, "configuration"), "iterations"))
        THEN LET iterations == Item(Item(field, "configuration"), "iterations").l
             IN "  Iterations:\n"
                \o Concat([i \in 1..Len(iterations) |-> iteration_line(iterations[i])])
        ELSE "")
    \o "\n"

get_project_fields_text(owner, project_number, fields) ==
    IF ~Truthy(fields)
    THEN "No fields found for project #" \o ToString(project_number) \o " in " \o owner
    ELSE "Fields for project #" \o ToString(project_number) \o " in " \o owner \o ":\n\n"
         \o Concat([i \in 1..Len(fields.l) |-> field_lines(fields.l[i])])

create_issue_text(owner, repo, issue) ==
    "Issue created successfully!\n\n"
    \o "Repository: " \o owner \o "/" \o repo \o "\n"
    \o "Issue Number: #" \o PyStr(Item(issue, "number")) \o "\n"
    \o "Title: " \o PyStr(Item(issue, "title")) \o "\n"
    \o "URL: " \o PyStr(Item(issue, "url")) \o "\n"

add_issue_to_project_text(t, result) ==
    "Successfully added issue " \o t.issue_owner \o "/" \o t.issue_repo \o "#"
    \o ToString(t.issue_number) \o " to project #" \o ToString(t.project_number) \o "!\n"
    \o "Item ID: " \o PyStr(Item(result, "id"))

update_project_item_field_text(t) ==
    "Successfully updated field for item in project #" \o ToString(t.project_number) \o "!\n"
    \o "Item ID: " \o t.item_id \o "\n"
    \o "Field ID: " \o t.field_id \o "\n"
    \o "Value Set: " \o t.field_value

create_draft_issue_text(t, result) ==
    "Successfully created draft issue in project #" \o ToString(t.project_number) \o "!\n"
    \o "Item ID: " \o PyStr(Item(result, "id")) \o "\n"
    \o "Title: " \o t.title

delete_project_item_text(t, deleted_item_id) ==
    "Successfully deleted item from project #" \o ToString(t.project_number) \o "!\n"
    \o "Deleted Item ID: " \o PyStr(deleted_item_id)

\* what the tool returns when the engine has returned result
success_text(t, result) ==
    CASE t.name = "list_projects" -> list_projects_text(t.owner, result)
      [] t.name = "get_project_fields" ->
            get_project_fields_text(t.owner, t.project_number, result)
      [] t.name = "create_issue" -> create_issue_text(t.owner, t.repo, result)
      [] t.name = "add_issue_to_project" -> add_issue_to_project_text(t, result)
      [] t.name = "update_project_item_field" -> update_project_item_field_text(t)
      [] t.name = "create_draft_issue" -> create_draft_issue_text(t, result)
      [] t.name = "delete_project_item" -> delete_project_item_text(t, result)

\* what the tool puts before the description of a GitHubClientError
error_text(t) ==
    CASE t.name = "list_projects" ->
            "Error: Could not list projects for " \o t.owner \o ". Details: "
      [] t.name = "get_project_fields" ->
            "Error: Could not get fields for project " \o t.owner \o "/"
            \o ToString(t.project_number) \o ". Details: "
      [] t.name = "create_issue" ->
            "Error: Could not create issue in " \o t.owner \o "/" \o t.repo
            \o ". Details: "
      [] t.name = "add_issue_to_project" ->
            "Error: Could not add issue to project. Details: "
      [] t.name = "update_project_item_field" ->
            "Error: Could not update field value. Details: "
      [] t.name = "create_draft_issue" ->
            "Error: Could not create draft issue. Details: "
      [] t.name = "delete_project_item" -> "Error: Could not delete item. Details: "

\* the try block of a tool around its engine call: a GitHubClientError becomes
\* a message, any other exception leaves the tool
tool_response(t, r) ==
    CASE r.st = "ok" -> Text(success_text(t, r.val))
      [] r.st = "err" -> Text(error_text(t) \o r.msg)
      [] r.st = "crash" -> Crash(r.exc)

\* the engine operation a tool awaited has ended, and the tool ends
respond ==
    /\ pc = "done"
    /\ tool # NoTool
    /\ out = Running
    /\ out' = tool_response(tool, ret)
    /\ UNCHANGED <<pc, op, locals, calls, replies, released, leaked, ret, tool, resolved,
                   remote, other>>

----------------------------------------------------------------------------
Init ==
    /\ pc = "idle"
    /\ op = [name |-> "none"]
    /\ locals = NoLocals
    /\ calls = <<>>
    /\ replies = <<>>
    /\ released = <<>>
    /\ leaked = 0
    /\ ret = Running
    /\ tool = NoTool
    /\ out = Running
    /\ resolved = {}
    /\ remote = Untracked
    /\ other = Nobody

Next ==
    \/ \E owner \in Owners : get_projects(owner) /\ Direct
    \/ get_projects_owner
    \/ get_projects_org
    \/ get_projects_user
    \/ \E owner \in Owners, number \in ProjectNumbers, item_id \in ItemIds,
          field_id \in FieldIds, value \in FieldValues :
          update_project_item_field(owner, number, item_id, field_id, value) /\ Direct
    \/ update_project_item_field_input
    \/ update_project_item_field_result
    \/ \E owner \in Owners, number \in ProjectNumbers, item_id \in ItemIds :
          delete_project_item(owner, number, item_id) /\ Direct
    \/ delete_project_item_mutation
    \/ delete_project_item_result
    \/ \E owner \in Owners, number \in ProjectNumbers, title \in Titles, body \in Bodies :
          add_draft_issue_to_project(owner, number, title, body) /\ Direct
    \/ add_draft_issue_to_project_mutation
    \/ add_draft_issue_to_project_result
    \/ \E owner \in Owners, number \in ProjectNumbers, issue_number \in IssueNumbers :
          add_issue_to_project(owner, number, "acme", "repo", issue_number) /\ Direct
    \/ add_issue_to_project_issue
    \/ add_issue_to_project_mutation
    \/ add_issue_to_project_result
    \/ \E owner \in Owners, repo \in Repos, title \in Titles, body \in Bodies :
          create_issue(owner, repo, title, body) /\ Direct
    \/ create_issue_mutation
    \/ create_issue_result
    \/ \E owner \in Owners, number \in ProjectNumbers, title \in SettingTitles,
          description \in SettingDescriptions, public \in SettingPublics :
          update_project_settings(owner, number, title, description, public) /\ Direct
    \/ update_project_settings_mutation
    \/ update_project_settings_result
    \/ \E owner \in Owners, number \in ProjectNumbers : get_project_fields(owner, number) /\ Direct
    \/ get_project_fields_query
    \/ get_project_fields_result
    \/ \E owner \in Owners, number \in ProjectNumbers :
          get_project_items(owner, number, DefaultLimit) /\ Direct
    \/ get_project_items_query
    \/ get_project_items_result
    \/ \E owner \in Owners : list_projects(owner)
    \/ \E owner \in Owners, number \in ProjectNumbers :
          get_project_fields_tool(owner, number)
    \/ \E owner \in Owners, number \in ProjectNumbers, state \in States :
          get_project_items_tool(owner, number, DefaultLimit, state)
    \/ \E owner \in Owners, repo \in Repos, title \in Titles, body \in Bodies :
          create_issue_tool(owner, repo, title, body)
    \/ \E owner \in Owners, number \in ProjectNumbers, issue_number \in IssueNumbers :
          add_issue_to_project_tool(owner, number, "acme", "repo", issue_number)
    \/ \E owner \in Owners, number \in ProjectNumbers, item_id \in ItemIds,
          field_id \in FieldIds, field_value \in ToolFieldValues :
          update_project_item_field_tool(owner, number, item_id, field_id, field_value)
    \/ \E owner \in Owners, number \in ProjectNumbers, title \in Titles, body \in Bodies :
          create_draft_issue(owner, number, title, body)
    \/ \E owner \in Owners, number \in ProjectNumbers, item_id \in ItemIds :
          delete_project_item_tool(owner, number, item_id)
    \/ \E owner \in Owners, number \in ProjectNumbers, search_query \in SearchQueries :
          search_project_items(owner, number, search_query, SearchLimit)
    \/ respond
    \/ Return

Spec == Init /\ [][Next]_vars

----------------------------------------------------------------------------
(* A draft issue is added to a project whose items are followed, and the
   items are listed *)

\* most items the project holds at the start
MaxHeld == 2
\* the limits the items are listed with
ListLimits == {1, 2, DefaultLimit}

\* an item the project held before
HeldItem(k) ==
    Dict([id |-> Str("PVTI_" \o ToString(k)), type |-> Str("DRAFT_ISSUE"),
          fieldValues |-> Dict([nodes |-> List(<<TextValue>>)]),
          content |-> Dict([__typename |-> Str("DraftIssue"),
                            id |-> Str("DI_" \o ToString(k)),
                            title |-> Str("held " \o ToString(k))])])

\* the project holds the draft that was added
Added(title) ==
    remote.known /\ \E i \in 1..Len(remote.items) : remote.items[i] = NewDraft(title)

InitRoundTrip ==
    /\ pc = "idle"
    /\ op = [name |-> "none"]
    /\ locals = NoLocals
    /\ calls = <<>>
    /\ replies = <<>>
    /\ released = <<>>
    /\ leaked = 0
    /\ ret = Running
    /\ tool = NoTool
    /\ out = Running
    /\ resolved = {}
    /\ remote \in {Holding([k \in 1..n |-> HeldItem(k)]) : n \in 0..MaxHeld}
    /\ other = Nobody

\* one draft is added in a behaviour
add_one_draft(owner, number, title, body) ==
    /\ \A t \in Titles : ~Added(t)
    /\ add_draft_issue_to_project(owner, number, title, body)
    /\ Direct

list_items(owner, number, limit) ==
    get_project_items(owner, number, limit) /\ Direct

NextRoundTrip ==
    \/ \E owner \in Owners, number \in ProjectNumbers, title \in Titles, body \in Bodies :
          add_one_draft(owner, number, title, body)
    \/ add_draft_issue_to_project_mutation
    \/ add_draft_issue_to_project_result
    \/ \E owner \in Owners, number \in ProjectNumbers, limit \in ListLimits :
          list_items(owner, number, limit)
    \/ get_project_items_query
    \/ get_project_items_result
    \/ Return

SpecRoundTrip == InitRoundTrip /\ [][NextRoundTrip]_vars

----------------------------------------------------------------------------
(* The extraction loop of get_project_items, one record at a step *)

\* most records in the list the loop runs over
MaxRun == 3

Discriminators ==
    { Str("ProjectV2ItemFieldTextValue"), Str("ProjectV2ItemFieldDateValue"),
      Str("ProjectV2ItemFieldSingleSelectValue"), Str("ProjectV2ItemFieldNumberValue"),
      Str("ProjectV2ItemFieldIterationValue") }

\* loop_value as it would be if value were not set back to "N/A" for each record
loop_value_not_reset(fv, stale) ==
    IF Get(fv, "__typename") \in Discriminators THEN field_scalar(fv) ELSE stale

\* the value of one turn of the loop: `value = "N/A"` first, whatever the turn
\* before has left in it, then the branch of the discriminator
loop_value(fv, stale) == field_scalar(fv)

InitExtraction ==
    /\ pc = "extract"
    /\ op \in { [name |-> "extract", nodes |-> nodes] :
                  nodes \in SeqsUpTo(RawFieldValues, MaxRun) \ {<<>>} }
    /\ locals = [project_id |-> None, processed_values |-> EmptyDict,
                 value |-> Str("N/A"), extracted |-> <<>>]
    /\ calls = <<>>
    /\ replies = <<>>
    /\ released = <<>>
    /\ leaked = 0
    /\ ret = Running
    /\ tool = NoTool
    /\ out = Running
    /\ resolved = {}
    /\ remote = Untracked
    /\ other = Nobody

\* one turn of `for fv in item["fieldValues"]["nodes"]`; extracted keeps the
\* name and the value of every turn
extract_field_value ==
    /\ pc = "extract"
    /\ LET i == Len(locals.extracted) + 1
           fv == op.nodes[i]
           name == field_name(fv)
           value == loop_value(fv, locals.value)
           processed == DictSet(locals.processed_values, name.val, value)
       IN IF name.st # "ok"
          THEN pc' = "done" /\ ret' = name /\ UNCHANGED locals
          ELSE /\ locals' = [locals EXCEPT !.processed_values = processed,
                                           !.value = value,
                                           !.extracted = Append(@, <<name.val, value>>)]
               /\ IF i = Len(op.nodes)
                  THEN pc' = "done" /\ ret' = Ok(processed)
                  ELSE UNCHANGED <<pc, ret>>
    /\ UNCHANGED <<op, calls, replies, released, leaked, tool, out, resolved, remote, other>>

NextExtraction == extract_field_value

SpecExtraction == InitExtraction /\ [][NextExtraction]_vars

----------------------------------------------------------------------------
(* Two operations of one client under way at a time.  The event loop runs one
   coroutine until it awaits; pc, op, locals, calls, replies, released, ret,
   tool and out are the frame of the coroutine that runs, and other is the
   frame of the coroutine that waits. *)

\* the frame of the coroutine that runs
Frame ==
    [pc |-> pc, op |-> op, locals |-> locals, calls |-> calls, replies |-> replies,
     released |-> released, ret |-> ret, tool |-> tool, out |-> out]

\* the frame of a coroutine that has not started
NoFrame ==
    [pc |-> "idle", op |-> [name |-> "none"], locals |-> NoLocals, calls |-> <<>>,
     replies |-> <<>>, released |-> <<>>, ret |-> Running, tool |-> NoTool,
     out |-> Running]

\* Switch as it would be if project_id were kept on the client, for every
\* operation of it to read and write
Switch_shared_locals ==
    /\ other' = [Frame EXCEPT !.locals = other.locals]
    /\ pc' = other.pc
    /\ op' = other.op
    /\ calls' = other.calls
    /\ replies' = other.replies
    /\ released' = other.released
    /\ ret' = other.ret
    /\ tool' = other.tool
    /\ out' = other.out
    /\ UNCHANGED <<locals, leaked, resolved, remote>>

\* the coroutine that runs is at an await (or has not started, or has ended),
\* and the event loop goes on with the other one; each has its own frame, and
\* the client they share holds nothing but the token, the headers and the url
Switch ==
    /\ other' = Frame
    /\ pc' = other.pc
    /\ op' = other.op
    /\ locals' = other.locals
    /\ calls' = other.calls
    /\ replies' = other.replies
    /\ released' = other.released
    /\ ret' = other.ret
    /\ tool' = other.tool
    /\ out' = other.out
    /\ UNCHANGED <<leaked, resolved, remote>>

InitConcurrent ==
    /\ pc = "idle"
    /\ op = [name |-> "none"]
    /\ locals = NoLocals
    /\ calls = <<>>
    /\ replies = <<>>
    /\ released = <<>>
    /\ leaked = 0
    /\ ret = Running
    /\ tool = NoTool
    /\ out = Running
    /\ resolved = {}
    /\ remote = Untracked
    /\ other = NoFrame

NextConcurrent ==
    \/ \E owner \in Owners, number \in ProjectNumbers, issue_number \in IssueNumbers :
          add_issue_to_project(owner, number, "acme", "repo", issue_number) /\ Direct
    \/ add_issue_to_project_issue
    \/ add_issue_to_project_mutation
    \/ add_issue_to_project_result
    \/ \E owner \in Owners, number \in ProjectNumbers, title \in Titles, body \in Bodies :
          add_draft_issue_to_project(owner, number, title, body) /\ Direct
    \/ add_draft_issue_to_project_mutation
    \/ add_draft_issue_to_project_result
    \/ \E owner \in Owners, number \in ProjectNumbers, item_id \in ItemIds :
          delete_project_item(owner, number, item_id) /\ Direct
    \/ delete_project_item_mutation
    \/ delete_project_item_result
    \/ Switch
    \/ Return

SpecConcurrent == InitConcurrent /\ [][NextConcurrent]_vars

----------------------------------------------------------------------------
(* Vocabulary of the properties *)

\* the failure kinds the specification names, told apart by the message raised
IsInvalidInput(r) == r.st = "err" /\ StartsWith(r.msg, "Invalid value type for ")
IsProjectNotFound(r) ==
    /\ r.st = "err"
    /\ r.msg = "Project " \o ToString(op.number) \o " not found for owner " \o op.owner \o "."
IsOwnerNotFound(r) ==
    r.st = "err" /\ r.msg = "Owner " \o op.owner \o " not found or type could not be determined."
IsCollectionNotFound(r) ==
    r.st = "err" /\ StartsWith(r.msg, "Could not retrieve projects for ")

\* reply i of the running operation carried data and no errors
GoodReply(i) ==
    /\ Len(replies) >= i
    /\ replies[i].k = "json"
    /\ ~Has(replies[i].body, "errors")
    /\ Get(replies[i].body, "data") # None
ReplyData(i) == Item(replies[i].body, "data")

\* the update mutation calls the running operation has issued
UpdateCalls == {i \in 1..Len(calls) : calls[i].q = "UpdateProjectFieldValue"}

Updating == op.name = "update_project_item_field"

\* the prefixes that demand a string, and the numeric one
WantsString(field_id) ==
    \/ StartsWith(field_id, "PVTSSF_")
    \/ StartsWith(field_id, "PVTIF_")
    \/ StartsWith(field_id, "PVTDF_")
WantsNumber(field_id) == StartsWith(field_id, "PVTNU_")
NumberTyped(value) == value.t \in {"int", "float", "bool"}
WronglyTyped(field_id, value) ==
    \/ WantsString(field_id) /\ value.t # "str"
    \/ WantsNumber(field_id) /\ ~NumberTyped(value)

----------------------------------------------------------------------------
(* C1 *)

\* C1: a wrongly typed value for a recognized non-text prefix makes
\* update_project_item_field fail with InvalidInput without a single
\* execute_query call, the project-id lookup included.
C1_InvalidInputBeforeAnyCall ==
    (Updating /\ WronglyTyped(op.field_id, op.value))
        => /\ Len(calls) = 0
           /\ pc = "done" => IsInvalidInput(ret)

----------------------------------------------------------------------------
(* C2 *)

\* the value as a floating-point number, in tenths
AsFloat(value) ==
    CASE value.t = "int" -> [t |-> "float", f |-> 10 * value.n]
      [] value.t = "float" -> value
      [] value.t = "bool" -> [t |-> "float", f |-> IF value.b THEN 10 ELSE 0]

----------------------------------------------------------------------------
(* C3 *)

\* the string form of the values the operation is called with
StringForm(value) ==
    CASE value = Str("OPT_1") -> "OPT_1"
      [] value = Str("not-a-number") -> "not-a-number"
      [] value = IntV(42) -> "42"
      [] value = IntV(1000) -> "1000"
      [] value = IntV(-7) -> "-7"
      [] value = FloatV(45) -> "4.5"
      [] value = Bool(TRUE) -> "True"
      [] value = None -> "None"

\* C3: for a PVTF_ field id or one with no recognized prefix, every value is
\* coerced to {text: str(value)}: the operation never fails with InvalidInput,
\* and once the project is resolved the update mutation is issued with that input.
C3_TextNeverFails ==
    (Updating /\ ~WantsString(op.field_id) /\ ~WantsNumber(op.field_id)) =>
        /\ ~IsInvalidInput(ret)
        /\ locals.project_id # None =>
             /\ UpdateCalls = {2}
             /\ calls[2].v.value = Dict([text |-> Str(StringForm(op.value))])
             /\ calls[2].v.fieldId = op.field_id

C3_Witness ==
    /\ Updating /\ pc = "UpdateProjectFieldValue"
    /\ op.field_id = "FLD_9" /\ op.value = IntV(42)
    /\ calls[2].v.value = Dict([text |-> Str("42")])

----------------------------------------------------------------------------
(* C4 *)

Listing == op.name = "get_projects"

\* C4: get_projects treats the owner as an organization whenever the
\* organization branch of the lookup is non-null (the user branch non-null or
\* not) and issues the organization-scoped fetch; else as a user when the user
\* branch is non-null, issuing the user-scoped fetch; else it fails with
\* NotFound and issues no second call.
C4_OwnerKindRule ==
    (Listing /\ GoodReply(1)) =>
        LET organization == Get(ReplyData(1), "organization")
            user == Get(ReplyData(1), "user")
        IN IF organization # None
           THEN /\ Len(calls) >= 2
                /\ calls[2] = Call("GetOrgProjects",
                                   [login |-> op.owner, first |-> ProjectsPageSize])
           ELSE IF user # None
           THEN /\ Len(calls) >= 2
                /\ calls[2] = Call("GetUserProjects",
                                   [login |-> op.owner, first |-> ProjectsPageSize])
           ELSE /\ pc = "done"
                /\ IsOwnerNotFound(ret)
                /\ Len(calls) = 1

C4_Witness ==
    /\ Listing /\ GoodReply(1)
    /\ Get(ReplyData(1), "organization") # None
    /\ Get(ReplyData(1), "user") # None
    /\ pc = "GetOrgProjects"

----------------------------------------------------------------------------
(* C5 *)

\* the operations that need a project identifier
ProjectOps ==
    { "get_project_fields", "get_project_items", "add_issue_to_project",
      "add_draft_issue_to_project", "update_project_item_field",
      "delete_project_item", "update_project_settings" }
OnProject == op.name \in ProjectOps

\* the nested project of one branch of a GetProjectId response, or None
NestedProject(data, branch) ==
    IF Get(data, branch) = None THEN None ELSE Get(Get(data, branch), "projectV2")

\* C5: the project id is the organization branch's nested project id whenever
\* that project is non-null, else the user branch's when that one is non-null
\* (also when the organization exists without such a project), and the lookup
\* fails with NotFound exactly when neither nested project resolves.
C5_ProjectIdRule ==
    (OnProject /\ GoodReply(1)) =>
        LET ofOrganization == NestedProject(ReplyData(1), "organization")
            ofUser == NestedProject(ReplyData(1), "user")
        IN IF ofOrganization # None
           THEN locals.project_id = Item(ofOrganization, "id") /\ ~IsProjectNotFound(ret)
           ELSE IF ofUser # None
           THEN locals.project_id = Item(ofUser, "id") /\ ~IsProjectNotFound(ret)
           ELSE locals.project_id = None /\ IsProjectNotFound(ret)

C5_Witness ==
    /\ OnProject /\ GoodReply(1)
    /\ Get(ReplyData(1), "organization") # None
    /\ NestedProject(ReplyData(1), "organization") = None
    /\ locals.project_id = Str("PVT_user")

----------------------------------------------------------------------------
(* C6 *)

IsTransportFailure(r) ==
    /\ r.st = "err"
    /\ \/ StartsWith(r.msg, "HTTP error executing GraphQL query: ")
       \/ StartsWith(r.msg, "Unexpected error executing GraphQL query: ")

\* C6: every operation on a project issues the project-id lookup as its first
\* call, in every invocation and holding no identifier before the lookup has
\* answered; when the lookup fails or finds no project the operation ends
\* with that failure and with no further call.
C6_LookupFirst ==
    OnProject =>
        /\ Len(calls) >= 1
        /\ calls[1] = Call("GetProjectId", [login |-> op.owner, number |-> op.number])
        /\ Len(replies) = 0 => (locals.project_id = None /\ Len(calls) = 1)
        /\ (Len(replies) >= 1 /\ ~GoodReply(1)) =>
             (pc = "done" /\ Len(calls) = 1 /\ IsTransportFailure(ret))
        /\ (GoodReply(1)
            /\ NestedProject(ReplyData(1), "organization") = None
            /\ NestedProject(ReplyData(1), "user") = None) =>
             (pc = "done" /\ Len(calls) = 1 /\ IsProjectNotFound(ret))

\* a project an earlier invocation resolved is looked up again, and not found
C6_Witness ==
    /\ op.name = "delete_project_item"
    /\ <<op.owner, op.number>> \in resolved
    /\ pc = "done" /\ Len(calls) = 1
    /\ calls[1].q = "GetProjectId"
    /\ IsProjectNotFound(ret)

----------------------------------------------------------------------------
(* C7 *)

\* C7: get_projects fails with NotFound when the scoped owner or its
\* projectsV2 collection is null in the second response, and returns the
\* collection's nodes, the empty sequence included, when it is present.
C7_AbsentOrEmpty ==
    (Listing /\ GoodReply(2) /\ pc = "done") =>
        LET branch == IF calls[2].q = "GetOrgProjects" THEN "organization" ELSE "user"
            collection == IF Get(ReplyData(2), branch) = None THEN None
                          ELSE Get(Get(ReplyData(2), branch), "projectsV2")
        IN IF collection = None THEN IsCollectionNotFound(ret)
           ELSE /\ ret = Ok(Item(collection, "nodes"))
                /\ Item(collection, "nodes") = List(<<>>) => ret = Ok(List(<<>>))

C7_Witness ==
    /\ Listing /\ GoodReply(2) /\ pc = "done"
    /\ Get(ReplyData(2), "user") # None
    /\ ret = Ok(List(<<>>))

----------------------------------------------------------------------------
(* C8 *)

Itemizing == op.name = "get_project_items"

\* the items query answered with a page of items
PageDelivered ==
    /\ Itemizing /\ GoodReply(2)
    /\ Get(ReplyData(2), "node") # None
    /\ Get(Item(ReplyData(2), "node"), "items") # None

\* the items of that page as the remote API sent them, and an item's records
RawItems == Item(Item(Item(ReplyData(2), "node"), "items"), "nodes").l
RawRecords(k) == Item(Item(RawItems[k], "fieldValues"), "nodes").l

\* the fieldValues attribute of returned item k
Returned(k) == Get(ret.val.l[k], "fieldValues")

\* a record's display name is missing from its own field reference
NameMissing(fv) ==
    \/ ~Has(fv, "field")
    \/ Item(fv, "field") = None
    \/ ~Has(Item(fv, "field"), "name")

\* the key a record is filed under
RecordKey(fv) ==
    IF NameMissing(fv) THEN Str("UnknownField") ELSE Item(Item(fv, "field"), "name")

\* no later record of the same item has the same key
LastOfItsName(records, i) ==
    \A j \in (i + 1)..Len(records) : RecordKey(records[j]) # RecordKey(records[i])

\* the scalar the discriminator of a record selects
ScalarByDiscriminator(fv) ==
    LET kind == Get(fv, "__typename")
    IN CASE kind = Str("ProjectV2ItemFieldTextValue") -> Item(fv, "text")
         [] kind = Str("ProjectV2ItemFieldDateValue") -> Item(fv, "date")
         [] kind = Str("ProjectV2ItemFieldSingleSelectValue") -> Item(fv, "name")
         [] kind = Str("ProjectV2ItemFieldNumberValue") -> Item(fv, "number")
         [] kind = Str("ProjectV2ItemFieldIterationValue") ->
                Str(Item(fv, "title").s \o " (Start: " \o Item(fv, "startDate").s \o ")")
         [] OTHER -> Str("N/A")

\* C8: in the items get_project_items returns, the scalar filed for a record
\* is the one its own discriminator selects: text, date, option name, number,
\* "<title> (Start: <startDate>)" for an iteration, and "N/A" for any other or
\* missing discriminator.
C8_ScalarByDiscriminator ==
    (pc = "done" /\ PageDelivered /\ ret.st = "ok") =>
        \A k \in 1..Len(RawItems) :
            \A i \in 1..Len(RawRecords(k)) :
                LastOfItsName(RawRecords(k), i) =>
                    /\ RecordKey(RawRecords(k)[i]) \in DOMAIN Returned(k).d
                    /\ Returned(k).d[RecordKey(RawRecords(k)[i])]
                         = ScalarByDiscriminator(RawRecords(k)[i])

C8_Witness ==
    /\ pc = "done" /\ PageDelivered /\ ret.st = "ok"
    /\ Len(RawItems) = 1
    /\ RawRecords(1) = <<LabelValue, IterationValue>>
    /\ Returned(1).d[Str("Sprint")] = Str("Sprint 4 (Start: 2025-01-01)")
    /\ Returned(1).d[Str("Labels")] = Str("N/A")

----------------------------------------------------------------------------
(* C9 *)

\* C9: a record whose field reference is absent, null or nameless is filed
\* under "UnknownField", and get_project_items still returns normally.
C9_UnknownFieldSentinel ==
    (pc = "done" /\ PageDelivered) =>
        \A k \in 1..Len(RawItems) :
            \A i \in 1..Len(RawRecords(k)) :
                NameMissing(RawRecords(k)[i]) =>
                    /\ ret.st = "ok"
                    /\ Str("UnknownField") \in DOMAIN Returned(k).d

----------------------------------------------------------------------------
(* C10 *)

\* the raw {nodes: [...]} wrapper of a field-value connection
IsRawWrapper(fieldValues) ==
    Has(fieldValues, "nodes") /\ Item(fieldValues, "nodes").t = "list"

\* C10: every item get_project_items returns carries a flat mapping from
\* field name to scalar as its fieldValues, never the raw wrapper; an item
\* with zero field values carries the empty mapping.
C10_EveryItemNormalized ==
    (pc = "done" /\ PageDelivered /\ ret.st = "ok") =>
        \A k \in 1..Len(RawItems) :
            /\ ~IsRawWrapper(Returned(k))
            /\ Len(RawRecords(k)) = 0 => Returned(k) = EmptyDict

----------------------------------------------------------------------------
(* C11 *)

\* the keys the records of an item are filed under
RecordKeys(records) == {RecordKey(records[i]) : i \in 1..Len(records)}

\* two records of the same item share their key
HasRepeatedName(records) ==
    \E i, j \in 1..Len(records) : i < j /\ RecordKey(records[i]) = RecordKey(records[j])

\* C11: the mapping of a returned item has one entry per field name (or
\* sentinel) of its raw records and no other key, and where a name repeats
\* the entry holds the scalar of the last record carrying it.
C11_LastValueWins ==
    (pc = "done" /\ PageDelivered /\ ret.st = "ok") =>
        \A k \in 1..Len(RawItems) :
            Len(RawRecords(k)) > 0 =>
                /\ DOMAIN Returned(k).d = RecordKeys(RawRecords(k))
                /\ \A i, j \in 1..Len(RawRecords(k)) :
                       (i < j /\ RecordKey(RawRecords(k)[i]) = RecordKey(RawRecords(k)[j])
                        /\ LastOfItsName(RawRecords(k), j)) =>
                           Returned(k).d[RecordKey(RawRecords(k)[i])]
                               = ScalarByDiscriminator(RawRecords(k)[j])

C11_Witness ==
    /\ pc = "done" /\ PageDelivered /\ ret.st = "ok"
    /\ Len(RawItems) = 1
    /\ RawRecords(1) = <<TextValue, SingleSelectValue>>
    /\ HasRepeatedName(RawRecords(1))
    /\ Returned(1) = Dict([Status |-> Str("Done")])

----------------------------------------------------------------------------
(* C12 *)

MutationOps ==
    { "create_issue", "add_issue_to_project", "add_draft_issue_to_project",
      "update_project_item_field", "delete_project_item", "update_project_settings" }
Mutating == op.name \in MutationOps

Mutations ==
    { "CreateIssue", "AddItemToProject", "AddDraftIssueToProject",
      "UpdateProjectFieldValue", "DeleteProjectItem", "UpdateProject" }

\* the mutation calls the running operation has issued
MutationCalls == {i \in 1..Len(calls) : calls[i].q \in Mutations}

\* the identity lookups an operation needs, in the order it makes them
NeededLookups(name) ==
    CASE name = "create_issue" -> <<"GetRepositoryId">>
      [] name = "add_issue_to_project" -> <<"GetProjectId", "GetIssueId">>
      [] OTHER -> <<"GetProjectId">>

\* call i was a lookup and its reply named the entity looked for
LookupMatched(i) ==
    /\ GoodReply(i)
    /\ CASE calls[i].q = "GetProjectId" ->
                \E branch \in {"organization", "user"} :
                    Truthy(NestedProject(ReplyData(i), branch))
         [] calls[i].q = "GetIssueId" ->
                /\ Truthy(Get(ReplyData(i), "repository"))
                /\ Truthy(Get(Get(ReplyData(i), "repository"), "issue"))
         [] calls[i].q = "GetRepositoryId" -> Truthy(Get(ReplyData(i), "repository"))
         [] calls[i].q = "GetOwnerType" ->
                \E branch \in {"organization", "user"} : Truthy(Get(ReplyData(i), branch))
         [] OTHER -> FALSE

\* C12: a mutation operation issues at most one mutation call, exactly one
\* when it succeeds, and issues it only after each identity lookup it needs
\* (repository id, issue id, project id) has returned a match.
C12_OneMutationAfterLookups ==
    Mutating =>
        /\ Cardinality(MutationCalls) <= 1
        /\ (pc = "done" /\ ret.st = "ok") => Cardinality(MutationCalls) = 1
        /\ \A i \in MutationCalls :
               /\ i = Len(calls)
               /\ [j \in 1..(i - 1) |-> calls[j].q] = NeededLookups(op.name)
               /\ \A j \in 1..(i - 1) : LookupMatched(j)

C12_Witness ==
    /\ pc = "done" /\ op.name = "create_issue" /\ ret.st = "ok"
    /\ MutationCalls = {2}
    /\ calls[2] = Call("CreateIssue",
                       [repositoryId |-> Str("R_1"), title |-> op.title, body |-> op.body])
    /\ LookupMatched(1)

----------------------------------------------------------------------------
(* C13 *)

\* where the success payload of a mutation sits in its data
MutationRoot(q) ==
    CASE q = "CreateIssue" -> "createIssue"
      [] q = "AddItemToProject" -> "addProjectV2ItemById"
      [] q = "AddDraftIssueToProject" -> "addProjectV2DraftIssue"
      [] q = "UpdateProjectFieldValue" -> "updateProjectV2ItemFieldValue"
      [] q = "DeleteProjectItem" -> "deleteProjectV2Item"
      [] q = "UpdateProject" -> "updateProjectV2"
MutationNested(q) ==
    CASE q = "CreateIssue" -> "issue"
      [] q = "AddItemToProject" -> "item"
      [] q = "AddDraftIssueToProject" -> "projectItem"
      [] q = "UpdateProjectFieldValue" -> "projectV2Item"
      [] q = "DeleteProjectItem" -> "deletedItemId"
      [] q = "UpdateProject" -> "projectV2"

\* the mutation call of the operation was answered with data, and the
\* operation has ended
MutationAnswered ==
    /\ Mutating /\ pc = "done"
    /\ MutationCalls = {Len(calls)}
    /\ GoodReply(Len(calls))

\* the nested success payload of that data; None when it is missing or null
Payload ==
    LET q == calls[Len(calls)].q
        root == Get(ReplyData(Len(calls)), MutationRoot(q))
    IN IF root = None THEN None ELSE Get(root, MutationNested(q))

IsMutationFailed(r) == r.st = "err" /\ StartsWith(r.msg, "Failed to ")

\* C13 as stated: a mutation whose nested success payload is missing or null
\* fails with MutationFailed, and with any other payload the operation
\* returns exactly that payload.
C13_NullPayloadFails ==
    MutationAnswered =>
        IF Payload = None THEN IsMutationFailed(ret) ELSE ret = Ok(Payload)

\* C13: a mutation whose nested success payload is missing, null or empty
\* (falsy: an empty string, an empty object) fails with MutationFailed, and
\* with any other payload the operation returns exactly that payload.
C13_EmptyPayloadFails ==
    MutationAnswered =>
        IF ~Truthy(Payload) THEN IsMutationFailed(ret) ELSE ret = Ok(Payload)

C13_Witness ==
    /\ MutationAnswered /\ op.name = "delete_project_item"
    /\ Payload = Str("")
    /\ ret = Raise("Failed to delete item I1")

----------------------------------------------------------------------------
(* C14 *)

Setting == op.name = "update_project_settings"

\* the key each setting is sent under, with the argument it comes from
SettingKeys ==
    { <<"title", op.title>>, <<"shortDescription", op.description>>,
      <<"public", op.public>> }

\* the settings the caller supplied
Supplied == {kv \in SettingKeys : kv[2] # None}

\* C14: the input object update_project_settings sends has exactly the keys
\* projectId plus one key per supplied setting (title, shortDescription for
\* description, public), each with the supplied value; an absent setting
\* gives no key and no null, a supplied "" or false is included.
C14_OnlySuppliedSettings ==
    Setting =>
        \A i \in MutationCalls :
            LET input == calls[i].v.input
            IN /\ DOMAIN input.d = {Str("projectId")} \cup {Str(kv[1]) : kv \in Supplied}
               /\ Item(input, "projectId") = locals.project_id
               /\ \A kv \in Supplied : Item(input, kv[1]) = kv[2]
               /\ \A k \in DOMAIN input.d : input.d[k] # None

C14_Witness ==
    /\ Setting /\ MutationCalls = {2}
    /\ op.title = Str("") /\ op.description = None /\ op.public = Bool(FALSE)
    /\ calls[2].v.input =
           Dict([projectId |-> locals.project_id, title |-> Str(""), public |-> Bool(FALSE)])

----------------------------------------------------------------------------
(* C15 *)

Lookups == {"GetOwnerType", "GetProjectId", "GetRepositoryId", "GetIssueId"}

\* call i has ended in a transport failure, or it was an identity lookup and
\* its reply named no entity
FailedAt(i) ==
    /\ i \in 1..Len(replies)
    /\ \/ ~GoodReply(i)
       \/ calls[i].q \in Lookups /\ ~LookupMatched(i)

\* C15: once a transport call fails or an identity lookup (owner, project,
\* repository, issue) finds no match, the operation has failed, that call is
\* its last one, and nothing is returned; and no operation issues the same
\* call twice.
C15_FailFast ==
    /\ \A i \in 1..Len(replies) :
           FailedAt(i) => pc = "done" /\ ret.st = "err" /\ Len(calls) = i
    /\ \A i, j \in 1..Len(calls) : i # j => calls[i] # calls[j]

C15_Witness ==
    /\ op.name = "add_issue_to_project" /\ pc = "done"
    /\ Len(calls) = 2 /\ LookupMatched(1)
    /\ GoodReply(2) /\ FailedAt(2)
    /\ ret = Raise("Issue 7 not found in acme/repo")

----------------------------------------------------------------------------
(* C16 *)

\* C16: whatever structured payload the transport returns, an operation that
\* has ended has returned a result or failed with GitHubClientError, and with
\* no other kind of error.
C16_UniformFailureKind ==
    pc = "done" => ret.st \in {"ok", "err"}

----------------------------------------------------------------------------
(* C17 *)

\* the last call of the operation failed in execute_query, and the operation
\* has ended with that failure
CallFailed ==
    /\ pc = "done" /\ Len(replies) > 0
    /\ ~GoodReply(Len(replies))
LastReply == replies[Len(replies)]

\* the classes a failure message is reported under
ReportedAsHttp(msg) == StartsWith(msg, "HTTP error executing GraphQL query: ")
ReportedAsQueryErrors(msg) == StartsWith(msg, "GraphQL query errors: ")
ReportedAsNoData(msg) == msg = "GraphQL query returned no data and no errors."
ReportedAsUnexpected(msg) == StartsWith(msg, "Unexpected error executing GraphQL query: ")

\* C17: a failure of execute_query is reported under exactly one class: an
\* HTTP error status as an HTTP failure, a response with an errors entry as
\* GraphQL query errors, a response with neither errors nor data as the
\* no-data anomaly; the last two never as a transport or unexpected failure.
C17_ClassifiedFailure ==
    CallFailed =>
        /\ ret.st = "err"
        /\ LastReply.k = "status" =>
               ReportedAsHttp(ret.msg) /\ ~ReportedAsUnexpected(ret.msg)
        /\ (LastReply.k = "json" /\ Has(LastReply.body, "errors")) =>
               /\ ReportedAsQueryErrors(ret.msg)
               /\ ~ReportedAsHttp(ret.msg) /\ ~ReportedAsUnexpected(ret.msg)
        /\ (LastReply.k = "json" /\ ~Has(LastReply.body, "errors")) =>
               /\ ReportedAsNoData(ret.msg)
               /\ ~ReportedAsHttp(ret.msg) /\ ~ReportedAsUnexpected(ret.msg)

----------------------------------------------------------------------------
(* C18 *)

\* reply i carried an errors entry
ReportedErrors(i) == replies[i].k = "json" /\ Has(replies[i].body, "errors")

\* reply i carried an errors entry and data with a resolved branch as well
ResolvedDespiteErrors(i) ==
    /\ ReportedErrors(i)
    /\ Get(replies[i].body, "data") # None
    /\ \E branch \in {"organization", "user"} :
           Truthy(Get(Item(replies[i].body, "data"), branch))

\* C18: a response with an errors entry fails the call whatever data it
\* carries, and the operation fails on the spot with that failure, having read
\* none of the data: no id is kept and no further call is issued, also when a
\* dual-branch owner or project-id lookup resolved one of its branches.
C18_ErrorsHideData ==
    \A i \in 1..Len(replies) :
        ReportedErrors(i) =>
            /\ pc = "done" /\ Len(calls) = i
            /\ ret = execute_query(replies[i]) /\ ret.st = "err"
            /\ calls[i].q = "GetProjectId" => locals.project_id = None

C18_Witness ==
    /\ pc = "done" /\ OnProject /\ Len(replies) = 1
    /\ ResolvedDespiteErrors(1)
    /\ replies[1] \in PartialProjectIdResponses
    /\ ret.st = "err" /\ locals.project_id = None

----------------------------------------------------------------------------
(* C20 *)

\* C20: every execute_query call has a transport session of its own, open
\* while the call is awaited and released when the call ends, however it ends
\* (data, HTTP status, GraphQL errors, no data, unexpected failure): once an
\* operation has ended no session of it is open, and the operations that have
\* returned have left none open.
C20_SessionsReleased ==
    /\ leaked = 0
    /\ Len(released) = Len(replies)
    /\ pc \in {"idle", "done"} => OpenSessions = {}
    /\ pc \notin {"idle", "done"} => OpenSessions = {Len(calls)}

C20_Witness ==
    /\ pc = "done" /\ Len(calls) = 2
    /\ GoodReply(1) /\ replies[2] = NetworkError
    /\ released = <<TRUE, TRUE>>
    /\ OpenSessions = {}

----------------------------------------------------------------------------
(* C19 *)

\* the tool that was called has ended
Responded == out # Running

\* s ends with tail
EndsWith(s, tail) ==
    Len(s) >= Len(tail) /\ SubSeq(s, Len(s) - Len(tail) + 1, Len(s)) = tail

\* C19: every tool of the shell ends with a text response and raises nothing,
\* whatever its arguments and whatever the transport produced; when the engine
\* operation failed, the text is an error message that carries the failure's
\* description.
C19_ToolsNeverRaise ==
    Responded =>
        /\ out.st = "text"
        /\ ret.st = "err" =>
               StartsWith(out.text, "Error: ") /\ EndsWith(out.text, ret.msg)

----------------------------------------------------------------------------
(* C21 *)

\* a draft issue with this title is among the items
HasDraft(items, title) ==
    \E k \in 1..Len(items) :
        /\ Get(items[k], "content") # None
        /\ Get(Item(items[k], "content"), "__typename") = Str("DraftIssue")
        /\ Get(Item(items[k], "content"), "title") = Str(title)

\* get_project_items has returned the items of a project to which the draft
\* titled title was added before
ListedAfterAdding(title) ==
    /\ Itemizing /\ pc = "done" /\ ret.st = "ok"
    /\ Added(title)

\* C21 as stated: whatever the project already holds, the items listed after
\* a draft issue titled T was added include a DraftIssue item titled T.
C21_RoundTrip ==
    \A title \in Titles : ListedAfterAdding(title) => HasDraft(ret.val.l, title)

\* C21: when the project held fewer items than the limit of the listing
\* before the draft issue titled T was added, the items listed after the add
\* include a DraftIssue item titled T.
C21_RoundTripWithinLimit ==
    \A title \in Titles :
        (ListedAfterAdding(title) /\ Len(remote.items) <= op.limit) =>
            HasDraft(ret.val.l, title)

C21_Witness ==
    /\ ListedAfterAdding("T") /\ op.limit = 2
    /\ Len(remote.items) = 2
    /\ remote.items[2] = NewDraft("T")
    /\ Len(ret.val.l) = 2
    /\ HasDraft(ret.val.l, "T") /\ HasDraft(ret.val.l, "held 1")

----------------------------------------------------------------------------
(* C22 *)

Extracting == op.name = "extract"

\* C22: the extraction gives the same record the same field-name key and the
\* same scalar each time it runs on it, whatever records it has run on before;
\* and the mapping it builds is the one the records alone determine.
C22_ExtractionIdempotent ==
    Extracting =>
        /\ \A i, j \in 1..Len(locals.extracted) :
               op.nodes[i] = op.nodes[j] => locals.extracted[i] = locals.extracted[j]
        /\ \A i \in 1..Len(locals.extracted) :
               locals.extracted[i] =
                   <<RecordKey(op.nodes[i]), ScalarByDiscriminator(op.nodes[i])>>
        /\ (pc = "done" /\ ret.st = "ok") =>
               ret = processed_values(op.nodes, 1, EmptyDict)

C22_Witness ==
    /\ Extracting /\ pc = "done" /\ ret.st = "ok"
    /\ op.nodes = <<LabelValue, TextValue, LabelValue>>
    /\ locals.extracted[1] = locals.extracted[3]
    /\ locals.extracted[1][2] = Str("N/A")
    /\ locals.extracted[2] # locals.extracted[1]

----------------------------------------------------------------------------
(* C23 *)

\* the calls of the operation with frame f that have been issued and have not
\* ended
InFlight(f) == {i \in 1..Len(f.calls) : i > Len(f.replies)}

\* the operation with frame f issues one call at a time, the next one after
\* the one before has ended
Sequential(f) ==
    /\ Len(f.replies) <= Len(f.calls)
    /\ Cardinality(InFlight(f)) <= 1
    /\ InFlight(f) # {} <=> f.pc \notin {"idle", "done"}
    /\ f.op.name = "add_issue_to_project" =>
           /\ \A i \in 1..Len(f.calls) :
                  f.calls[i].q = <<"GetProjectId", "GetIssueId", "AddItemToProject">>[i]
           /\ Len(f.calls) >= 2 => Len(f.replies) >= 1
           /\ Len(f.calls) = 3 => Len(f.replies) >= 2

\* the project id the first response of the operation with frame f delivered
OwnProjectId(f) ==
    get_project_node_id(f.op.owner, f.op.number, execute_query(f.replies[1])).val

\* every later call of the operation with frame f carries the project id of
\* its own first response
OwnLookups(f) ==
    \A i \in 2..Len(f.calls) :
        "projectId" \in DOMAIN f.calls[i].v => f.calls[i].v.projectId = OwnProjectId(f)

\* C23: each operation issues its calls one at a time, call k+1 after call k
\* has returned (in add_issue_to_project the issue lookup after the project
\* lookup, the mutation after both); and of two operations under way at a
\* time each works on what its own responses delivered: with the same
\* arguments and the same responses they are at the same place with the same
\* calls and the same result, whatever the other has received.
C23_SequentialAndIsolated ==
    /\ Sequential(Frame) /\ Sequential(other)
    /\ OwnLookups(Frame) /\ OwnLookups(other)
    /\ (op = other.op /\ replies = other.replies) =>
           /\ pc = other.pc
           /\ calls = other.calls
           /\ ret = other.ret
           /\ locals = other.locals

C23_Witness ==
    /\ op.name = "add_issue_to_project" /\ pc = "AddItemToProject"
    /\ other.op.name = "add_draft_issue_to_project"
    /\ other.pc = "AddDraftIssueToProject"
    /\ InFlight(Frame) = {3} /\ InFlight(other) = {2}
    /\ calls[3].v.projectId = Str("PVT_org")
    /\ other.calls[2].v.projectId = Str("PVT_user")

----------------------------------------------------------------------------
(* C24 *)

\* a list operation has returned the nodes of the connection its second call
\* fetched
Listed(name) == op.name = name /\ pc = "done" /\ ret.st = "ok" /\ Len(replies) = 2

\* the node sequence of the connection as the remote API sent it
FetchedProjects ==
    LET data == ReplyData(2)
        branch == IF calls[2].q = "GetOrgProjects" THEN "organization" ELSE "user"
    IN Item(Item(Item(data, branch), "projectsV2"), "nodes")
FetchedFields == Item(Item(Item(ReplyData(2), "node"), "fields"), "nodes")

\* the attributes of an item other than fieldValues
Kept(item) == DOMAIN item.d \ {Str("fieldValues")}

\* C24: get_projects and get_project_fields return the node sequence of the
\* response as it came: the same records with the same attribute values in
\* the same order, nested iterations and options included; get_project_items
\* returns as many items as came, in the same order, each with the same
\* attributes, and every attribute but fieldValues (id, type, content) with
\* the value it came with.
C24_OnlyFieldValuesChange ==
    /\ Listed("get_projects") => ret.val = FetchedProjects
    /\ Listed("get_project_fields") => ret.val = FetchedFields
    /\ Listed("get_project_items") =>
           /\ Len(ret.val.l) = Len(RawItems)
           /\ \A k \in 1..Len(RawItems) :
                  /\ DOMAIN ret.val.l[k].d = DOMAIN RawItems[k].d
                  /\ \A key \in Kept(RawItems[k]) : ret.val.l[k].d[key] = RawItems[k].d[key]

C24_Witness ==
    /\ Listed("get_project_items")
    /\ Len(RawItems) = 2
    /\ RawRecords(1) = <<TextValue>> /\ RawRecords(2) = <<>>
    /\ Get(ret.val.l[1], "fieldValues") # Get(RawItems[1], "fieldValues")
    /\ Get(ret.val.l[1], "id") = Str("PVTI_1") /\ Get(ret.val.l[2], "id") = Str("PVTI_2")
    /\ Get(ret.val.l[1], "content") = DraftContent("T")

----------------------------------------------------------------------------
(* C25 *)

\* the tool update_project_item_field is under way on a field whose id does
\* not ask for a number
ToolSetsString ==
    /\ tool.name = "update_project_item_field" /\ Updating
    /\ ~WantsNumber(tool.field_id)

\* the one value of a mutation's value object
Carried(i) == {calls[i].v.value.d[k] : k \in DOMAIN calls[i].v.value.d}

\* C25: when the tool update_project_item_field is called with the string s
\* on a field whose id asks for a string (text, single-select, iteration,
\* date, or no known prefix), the engine is given s itself, the mutation
\* input carries s, the value the tool reports as "Value Set", and the update
\* is not refused for the type of the value, also when s looks like a number.
C25_StringValueKept ==
    ToolSetsString =>
        /\ op.value = Str(tool.field_value)
        /\ \A i \in UpdateCalls : Carried(i) = {Str(tool.field_value)}
        /\ ~IsInvalidInput(ret)
        /\ (out # Running /\ ret.st = "ok") =>
               EndsWith(out.text, "Value Set: " \o tool.field_value)

----------------------------------------------------------------------------
(* C26 *)

\* C26: no normalized mapping get_project_items returns has a null key or a
\* null value: a record of a known type whose value attribute is absent or
\* null reads "N/A", and a record whose field name is absent or null is filed
\* under "UnknownField".
C26_NoNullInMapping ==
    (pc = "done" /\ PageDelivered /\ ret.st = "ok") =>
        \A k \in 1..Len(RawItems) :
            ~IsRawWrapper(Returned(k)) =>
                /\ \A key \in DOMAIN Returned(k).d :
                       key # None /\ Returned(k).d[key] # None
                /\ \A i \in 1..Len(RawRecords(k)) :
                       Get(GetOr(RawRecords(k)[i], "field", EmptyDict), "name") = None =>
                           Str("UnknownField") \in DOMAIN Returned(k).d

====
